---- MODULE Spec2Model ----
(***************************************************************************)
(* Model of the crystalbot exchange state mirror (lib/exchange/Exchange.ts) *)
(* and of the trading-agent update job (job/jobs/UpdateTradingAgent.ts).   *)
(*                                                                         *)
(* Amounts and balances are integers in ten-thousandths of a unit;         *)
(* a product with the fee or the slippage rate is rounded down to that     *)
(* resolution.  Prices are integers (quote units per base unit).  Time is  *)
(* counted in days for the mirror and in hours for the job store.          *)
(***************************************************************************)
EXTENDS Integers, Sequences, FiniteSets, TLC

\* ------------------------------------------------------------------ bounds
\* amounts are counted in 1/RateBase of a currency unit, rates in 1/RateBase
RateBase == 10 * 1000
Unit == RateBase

\* orders placed in SpecLimit
MaxOrdersLimit == 2
MaxOrders == 2
\* orders placed in SpecLockdown, and deposits made
MaxOrdersLockdown == 1
\* orders placed in SpecRemote
MaxOrdersRemote == 3
\* orders placed and hours passed in SpecAutoCancel
MaxOrdersAutoCancel == 2
MaxTimeAutoCancel == 2
\* orders placed by callers, and order ids used, in SpecSticky
MaxOrdersSticky == 2
MaxIdsSticky == 4
MaxDeposits == 1
\* order ids handed out before update stops being called
MaxIds == 4
\* the clock stops at MaxTime days
MaxTime == 14
\* runs of the agent that can be in progress at once in SpecAgent
MaxRuns == 2
\* the agent's clock stops at MaxClock hours
MaxClock == 10

\* ------------------------------------------------------- program constants
\* Exchange.ts:44, fee 0.0001, in 1/RateBase
DefaultFee == 1
\* Exchange.ts:26, _slippage 0.01, in 1/RateBase
Slippage == 100
\* Exchange.ts:837, purgeAge of one week, in days
PurgeAge == 7
\* AgendaUtils.ts:6, lockLifetime 36000000 ms, in hours
LockLifetime == 10
\* UpdateTradingAgent.ts:233, maxDrawdown || 0.2, in percent
DefaultMaxDrawdown == 20
\* Exchange.ts:175, autoCancelAtPriceLevel of a buy order defaults to Infinity
Infinity == 1000000000
\* Exchange.ts:174, autoCancelAtFillPercentage defaults to 1 (100 percent)
DefaultFillPercentage == 100
\* Exchange.ts:162, getMinDealAmount without exchange or setting: 1 unit
DefaultMinDealAmount == Unit



Min(a, b) == IF a < b THEN a ELSE b
Max(a, b) == IF a > b THEN a ELSE b

\* ----------------------------------------------------------------- markets
Currencies == {"BTC", "ETH", "USDT"}
BTCUSDT == <<"BTC", "USDT">>
ETHUSDT == <<"ETH", "USDT">>
Markets == {BTCUSDT, ETHUSDT}
\* market.split("/")[0] and [1]
baseCurrency(market) == market[1]
quoteCurrency(market) == market[2]

\* "no market" argument of update(market?), syncOrders(market?), ...
NoMarket == <<>>
\* the filter `market && order.market !== market`
InMarket(order, market) == market = NoMarket \/ order.market = market

\* ------------------------------------------------------------ finite maps
Put(map, key, value) ==
    [k \in DOMAIN map \cup {key} |-> IF k = key THEN value ELSE map[k]]
\* a delete that removes nothing
DelNothing(map, key) == map

Del(map, key) == [k \in DOMAIN map \ {key} |-> map[k]]
EmptyMap == [k \in {} |-> 0]

\* Object.keys order of an order map: the ids in ascending order
RECURSIVE SortedIds(_)
SortedIds(ids) ==
    IF ids = {} THEN <<>>
    ELSE LET m == CHOOSE i \in ids : \A j \in ids : i <= j
         IN <<m>> \o SortedIds(ids \ {m})

VARIABLES
    state,          \* Exchange._state (IExchangeState)
    dryRun,         \* Exchange._dryRun
    currentTime,    \* Exchange.currentTime (Date.now()), in days
    nextOrderId,    \* the next fresh order id (local or remote-assigned)
    candles,        \* the remote's latest smallest-timeframe candle per market
    lastCall,       \* the entry point called last, its arguments and result
    agent,          \* the persisted trading agent document
    job,            \* the persisted job document of the agent's update job
    runs,           \* the runs of updateTradingAgent in progress
    clock,          \* the job store's time, in hours
    guard,          \* history of the drawdown guard and of order placement
    jobs,           \* the job store: the ModelJob collection
    creators,       \* the calls of createRepeatingJob in progress
    daemon,         \* the process: its job runner and its signal handler
    tick,           \* one run of doUpdateTradingAgent, market by market
    lastQuote,      \* the last call of computeQuote and computeSpread
    marketState,    \* the strategy's state of the market BTC/USDT
    universe,       \* the strategy's active markets, in a tick and persisted
    exchanges,      \* CcxtExchangeManager.exchanges: the instance cached per id
    callers,        \* the calls of getExchange in progress
    created         \* the runs of CcxtExchange.create, one per instance built

mirrorVars == <<state, dryRun, currentTime, nextOrderId, candles, lastCall>>
runVars == <<agent, job, runs, clock, guard>>
jobVars == <<jobs, creators>>
strategyVars == <<lastQuote, marketState, universe>>
managerVars == <<exchanges, callers, created>>
serviceVars == <<jobVars, daemon, tick, strategyVars, managerVars>>
agentVars == <<runVars, serviceVars>>
vars == <<mirrorVars, runVars, serviceVars>>

\* fetchOrderBook fails: the local order book stays as it is
NoFetch == [failed |-> TRUE, book |-> [bids |-> <<>>, asks |-> <<>>]]
FetchedBook(book) == [failed |-> FALSE, book |-> book]
NoFetches == [m \in Markets |-> NoFetch]

\* ------------------------------------------------------ the call's context
\* A call works on the mirror state `st`; `sent` counts the create and cancel
\* requests it sends to the remote exchange, `err` is set when it throws and
\* `id` is the order id it returns.  The call's surroundings: `now` is
\* Date.now(), `candles` the remote's latest candle per market, `books` what
\* fetchOrderBook answers per market (live mode), `failCancel` the order ids
\* whose remote cancel fails and `failCreate` whether a remote create fails.
Env(now, latest, books, failCancel, failCreate) ==
    [now |-> now, candles |-> latest, books |-> books,
     failCancel |-> failCancel, failCreate |-> failCreate]

Ctx(st, dry, nextId, env) ==
    [st |-> st, dryRun |-> dry, nextId |-> nextId, now |-> env.now,
     candles |-> env.candles, books |-> env.books,
     failCancel |-> env.failCancel, failCreate |-> env.failCreate,
     sent |-> 0, err |-> FALSE, id |-> 0, ok |-> TRUE, steps |-> <<>>]

\* the call's log: a reconciliation step is entered (id 0), or the step's
\* action on the order of that id has completed
Logged(w, step, id) == [w EXCEPT !.steps = Append(@, [step |-> step, id |-> id])]

Throw(w) == [w EXCEPT !.err = TRUE]

WithBalance(w, currency, balance) ==
    [w EXCEPT !.st.balances[currency] = balance]

\* -------------------------------------------------- local cache updating
_deposit(w, currency, amount) ==
    WithBalance(w, currency,
        [w.st.balances[currency] EXCEPT !.free = @ + amount])

_withdraw(w, currency, amount) ==
    WithBalance(w, currency,
        [w.st.balances[currency] EXCEPT !.free = @ - amount])

_withdrawFromUsed(w, currency, amount) ==
    WithBalance(w, currency,
        [w.st.balances[currency] EXCEPT !.used = @ - amount])

_reserve(w, currency, amount) ==
    LET balance == w.st.balances[currency]
        reserve == w.st.reserves[currency]
        clamped == Min(amount, Max(balance.free - reserve, 0))
    IN WithBalance(w, currency,
           [free |-> balance.free - clamped, used |-> balance.used + clamped])

_releaseKeepUsed(w, currency, amount) ==
    LET balance == w.st.balances[currency]
        clamped == Min(amount, balance.used)
    IN WithBalance(w, currency,
           [free |-> balance.free + clamped, used |-> balance.used])

_release(w, currency, amount) ==
    LET balance == w.st.balances[currency]
        clamped == Min(amount, balance.used)
    IN WithBalance(w, currency,
           [free |-> balance.free + clamped, used |-> balance.used - clamped])

\* Balance (free is masked by the locked reserve) as getBalance builds it
getBalance(st, currency) ==
    LET raw == st.balances[currency]
        locked == Min(st.reserves[currency], raw.free)
        free == Max(0, raw.free - locked)
    IN [free |-> free, used |-> raw.used, locked |-> locked,
        total |-> free + raw.used]

getMinDealAmount(st, market) ==
    IF st.minDealAmounts[market] # 0 THEN st.minDealAmounts[market]
    ELSE DefaultMinDealAmount

\* amount * (1 - rate), rate in parts per million
LessRate(amount, rate) == amount - ((amount * rate + RateBase - 1) \div RateBase)

\* ------------------------------------------------------------------ orders
Absent == 0 - 1
StickyTrue == "true"
StickyFalse == "false"
StickyUndefined == "undefined"
Limit == "limit"
Market == "market"
Buy == "buy"
Sell == "sell"

\* ICreateOrderOptions; price, autoCancelAtFillPercentage and
\* autoCancelAtPriceLevel may be Absent, autoCancel 0 stands for "not given"
Options(market, type, side, amount, price, autoCancel, fillPct, level, sticky) ==
    [market |-> market, type |-> type, side |-> side, amount |-> amount,
     price |-> price, autoCancel |-> autoCancel,
     autoCancelAtFillPercentage |-> fillPct,
     autoCancelAtPriceLevel |-> level, sticky |-> sticky]

IsLive(w) == ~w.st.simulation /\ ~w.dryRun

\* a createOrder that stores the order although the remote create failed
storeOrderAnyway(w, order, failed) ==
    IF order.type = Market
    THEN [w EXCEPT !.st.closedOrders = Put(@, order.id, order),
                   !.nextId = @ + 1, !.id = order.id]
    ELSE [w EXCEPT !.st.openOrders = Put(@, order.id, order),
                   !.nextId = @ + 1, !.id = order.id]

\* the end of createOrder: when the remote create has failed the call
\* returns nothing; else the order is saved and its id returned
storeOrder(w, order, failed) ==
    IF failed THEN [w EXCEPT !.nextId = @ + 1]
    ELSE IF order.type = Market
    THEN [w EXCEPT !.st.closedOrders = Put(@, order.id, order),
                   !.nextId = @ + 1, !.id = order.id]
    ELSE [w EXCEPT !.st.openOrders = Put(@, order.id, order),
                   !.nextId = @ + 1, !.id = order.id]

\* Exchange.createOrder; the result's id is the new order's id, 0 when the
\* call returns nothing, and err is set when it throws
createOrder(w, options) ==
    LET market == options.market
        type == options.type
        side == options.side
        amount == options.amount
        ticker == w.st.tickers[market]
        optPrice == IF options.price = Absent
                    THEN (IF side = Buy THEN ticker.bid ELSE ticker.ask)
                    ELSE options.price
        fillPercentage == IF options.autoCancelAtFillPercentage = Absent
                          THEN DefaultFillPercentage
                          ELSE options.autoCancelAtFillPercentage
        priceLevel == IF options.autoCancelAtPriceLevel = Absent
                      THEN (IF side = Buy THEN Infinity ELSE 0)
                      ELSE options.autoCancelAtPriceLevel
        sticky == IF type = Market THEN FALSE ELSE options.sticky
        price == IF type = Market
                 THEN (IF side = Buy THEN ticker.ask ELSE ticker.bid)
                 ELSE optPrice
        quote == quoteCurrency(market)
        base == baseCurrency(market)
        quoteBalance == getBalance(w.st, quote)
        baseBalance == getBalance(w.st, base)
    IN
    IF w.st.lockdown THEN Throw(w)
    ELSE IF options.autoCancel = 0 /\ w.st.forceAutoCancel THEN Throw(w)
    ELSE IF amount <= 0 THEN Throw(w)
    ELSE IF price <= 0 THEN Throw(w)
    ELSE
    LET orderAmount == IF side = Buy
                       THEN Min(price * amount, quoteBalance.free) \div price
                       ELSE Min(baseBalance.free, amount)
        order == [id |-> w.nextId, timestamp |-> w.now, timestampClosed |-> Absent,
                  status |-> "open", market |-> market, type |-> type,
                  side |-> side, price |-> price, amount |-> orderAmount,
                  filled |-> 0, remaining |-> amount,
                  autoCancel |-> options.autoCancel,
                  autoCancelAtFillPercentage |-> fillPercentage,
                  autoCancelAtPriceLevel |-> priceLevel,
                  sticky |-> IF sticky THEN StickyTrue ELSE StickyFalse]
        w1 == IF side = Buy
              THEN IF type = Limit
                   THEN _reserve(w, quote, orderAmount * price)
                   ELSE _deposit(_withdraw(w, quote, amount * price), base,
                                 LessRate(LessRate(amount, w.st.fee), Slippage))
              ELSE IF type = Limit
                   THEN _reserve(w, base, orderAmount)
                   ELSE _deposit(_withdraw(w, base, amount), quote,
                                 LessRate(LessRate(price * amount, w.st.fee), Slippage))
        live == IsLive(w)
        w2 == IF live THEN [w1 EXCEPT !.sent = @ + 1] ELSE w1
    IN
    storeOrder(w2, order, live /\ w.failCreate)

\* a cancelOrder that goes on after the remote cancel has failed
cancelOrderDespiteRemote(w, order) ==
    LET quote == quoteCurrency(order.market)
        base == baseCurrency(order.market)
        w1 == IF IsLive(w) THEN [w EXCEPT !.sent = @ + 1] ELSE w
        w2 == IF order.side = Buy
              THEN _release(w1, quote, order.price * order.amount)
              ELSE _release(w1, base, order.amount)
        closed == [order EXCEPT !.timestampClosed = w.now]
    IN
    IF w.st.lockdown THEN Throw(w)
    ELSE IF order.status # "open" THEN Throw(w)
    ELSE IF order.filled > 0
    THEN [w2 EXCEPT !.st.cancelledOrders = Put(@, order.id, closed),
                    !.st.closedOrders = Put(@, order.id, closed),
                    !.st.openOrders = Del(@, order.id)]
    ELSE [w2 EXCEPT !.st.cancelledOrders = Put(@, order.id, order),
                    !.st.openOrders = Del(@, order.id)]

\* Exchange.cancelOrder
cancelOrder(w, order) ==
    LET quote == quoteCurrency(order.market)
        base == baseCurrency(order.market)
        live == IsLive(w)
        w1 == IF live THEN [w EXCEPT !.sent = @ + 1] ELSE w
    IN
    IF w.st.lockdown THEN Throw(w)
    ELSE IF order.status # "open" THEN Throw(w)
    ELSE IF live /\ order.id \in w.failCancel THEN w1
    ELSE
    LET w2 == IF order.side = Buy
              THEN _release(w1, quote, order.price * order.amount)
              ELSE _release(w1, base, order.amount)
        closed == [order EXCEPT !.timestampClosed = w.now]
    IN
    IF order.filled > 0
    THEN [w2 EXCEPT !.st.cancelledOrders = Put(@, order.id, closed),
                    !.st.closedOrders = Put(@, order.id, closed),
                    !.st.openOrders = Del(@, order.id)]
    ELSE [w2 EXCEPT !.st.cancelledOrders = Put(@, order.id, order),
                    !.st.openOrders = Del(@, order.id)]

\* Exchange.cancelAllOrders: the open orders of the market and side, one
\* cancelOrder each; a throwing cancelOrder rejects the call, the others
\* still run
\* a batch that stops at the first order the remote refuses to cancel
RECURSIVE cancelEachUntilRefused(_, _, _)
cancelEachUntilRefused(w, ids, keep) ==
    IF ids = <<>> THEN w
    ELSE LET id == Head(ids)
             w1 == IF id \in DOMAIN w.st.openOrders /\ keep[id]
                   THEN cancelOrder(w, w.st.openOrders[id])
                   ELSE w
         IN IF IsLive(w) /\ keep[id] /\ id \in w.failCancel THEN w1
            ELSE cancelEachUntilRefused(w1, Tail(ids), keep)

RECURSIVE cancelEach(_, _, _)
cancelEach(w, ids, keep) ==
    IF ids = <<>> THEN w
    ELSE LET id == Head(ids)
             w1 == IF id \in DOMAIN w.st.openOrders /\ keep[id]
                   THEN cancelOrder(w, w.st.openOrders[id])
                   ELSE w
         IN cancelEach(w1, Tail(ids), keep)

NoSide == "any"
cancelAllOrders(w, market, side) ==
    LET open == w.st.openOrders
        keep == [id \in DOMAIN open |->
                    /\ (side = NoSide \/ open[id].side = side)
                    /\ InMarket(open[id], market)]
    IN cancelEach(w, SortedIds(DOMAIN open), keep)

\* Exchange.getOrder
HasOrder(st, id) == id \in DOMAIN st.openOrders \cup DOMAIN st.closedOrders
getOrder(st, id) ==
    IF id \in DOMAIN st.openOrders THEN st.openOrders[id]
    ELSE st.closedOrders[id]

\* Exchange.cancelOrderById
cancelOrderById(w, id) ==
    IF w.st.lockdown THEN Throw(w)
    ELSE IF ~HasOrder(w.st, id) THEN Throw(w)
    ELSE cancelOrder(w, getOrder(w.st, id))

\* Exchange.deposit and Exchange.withdraw (simulation; the live calls go to
\* the remote exchange and leave the mirror alone)
deposit(w, currency, amount) ==
    IF w.st.lockdown THEN Throw(w)
    ELSE IF w.st.simulation THEN _deposit(w, currency, amount)
    ELSE IF ~w.dryRun THEN [w EXCEPT !.sent = @ + 1]
    ELSE w

withdraw(w, currency, amount) ==
    IF w.st.lockdown THEN Throw(w)
    ELSE IF w.st.simulation
    THEN IF getBalance(w.st, currency).free < amount THEN Throw(w)
         ELSE _withdraw(w, currency, amount)
    ELSE IF ~w.dryRun THEN [w EXCEPT !.sent = @ + 1]
    ELSE w

\* Exchange.setReserve and Exchange.clearReserve
setReserve(w, currency, amount) == [w EXCEPT !.st.reserves[currency] = amount]
clearReserve(w, currency) == [w EXCEPT !.st.reserves[currency] = 0]

\* ---------------------------------------------------------- reconciliation
\* Exchange._checkFullfillOrder
_checkFullfillOrder(w, order) ==
    LET quote == quoteCurrency(order.market)
        base == baseCurrency(order.market)
        latestCandle == w.candles[order.market]
    IN
    IF order.type # Limit THEN w
    ELSE IF latestCandle.volume <= 0 \/ order.timestamp >= latestCandle.timestamp
    THEN w
    ELSE IF order.side = Buy /\ latestCandle.low < order.price
    THEN LET w1 == _withdrawFromUsed(w, quote, order.amount * order.price)
             w2 == _deposit(w1, base, LessRate(order.amount, w.st.fee))
             closed == [order EXCEPT !.status = "closed", !.filled = order.amount,
                                     !.remaining = 0, !.timestampClosed = w.now]
         IN [w2 EXCEPT !.st.openOrders = Del(@, order.id),
                       !.st.closedOrders = Put(@, order.id, closed)]
    ELSE IF order.side = Sell /\ latestCandle.high > order.price
    THEN LET w1 == _withdrawFromUsed(w, base, order.amount)
             w2 == _deposit(w1, quote,
                            LessRate(order.amount * order.price, w.st.fee))
             closed == [order EXCEPT !.status = "closed", !.filled = order.amount,
                                     !.remaining = 0]
         IN [w2 EXCEPT !.st.openOrders = Del(@, order.id),
                       !.st.closedOrders = Put(@, order.id, closed)]
    ELSE w

\* the orders of a list that are still the mirror's open orders, one step each
RECURSIVE fulfillEach(_, _)
fulfillEach(w, ids) ==
    IF ids = <<>> THEN w
    ELSE LET id == Head(ids)
         IN fulfillEach(IF id \in DOMAIN w.st.openOrders
                        THEN Logged(_checkFullfillOrder(w, w.st.openOrders[id]),
                                    "fulfillLimitOrders", id)
                        ELSE w,
                        Tail(ids))

\* Exchange.getOpenOrders(market): the ids, in key order
OpenIds(st, market) ==
    {id \in DOMAIN st.openOrders : InMarket(st.openOrders[id], market)}

\* Exchange.fulfillLimitOrders
fulfillLimitOrders(w, market) ==
    fulfillEach(Logged(w, "fulfillLimitOrders", 0), SortedIds({id \in OpenIds(w.st, market) :
                                 w.st.openOrders[id].type = Limit}))

\* a filter that cancels an order as soon as its age equals autoCancel
ShouldAutoCancelAtAge(order, ticker, now) ==
    \/ order.autoCancel > 0 /\ order.timestamp + order.autoCancel <= now
    \/ /\ order.autoCancelAtFillPercentage # Absent
       /\ order.filled * 100 >= order.autoCancelAtFillPercentage * order.amount
    \/ /\ order.autoCancelAtPriceLevel # Absent
       /\ \/ order.side = Buy /\ ticker.ask > order.autoCancelAtPriceLevel
          \/ order.side = Sell /\ ticker.bid < order.autoCancelAtPriceLevel

\* the filter of autoCancelOrders; a comparison with an undefined field
\* (an order taken over from the remote exchange) is false
ShouldAutoCancel(order, ticker, now) ==
    \/ order.autoCancel > 0 /\ order.timestamp + order.autoCancel < now
    \/ /\ order.autoCancelAtFillPercentage # Absent
       /\ order.filled * 100 >= order.autoCancelAtFillPercentage * order.amount
    \/ /\ order.autoCancelAtPriceLevel # Absent
       /\ \/ order.side = Buy /\ ticker.ask > order.autoCancelAtPriceLevel
          \/ order.side = Sell /\ ticker.bid < order.autoCancelAtPriceLevel

RECURSIVE cancelListed(_, _)
cancelListed(w, ids) ==
    IF ids = <<>> THEN w
    ELSE LET id == Head(ids)
         IN cancelListed(IF id \in DOMAIN w.st.openOrders
                         THEN Logged(cancelOrder(w, w.st.openOrders[id]),
                                     "autoCancelOrders", id)
                         ELSE w,
                         Tail(ids))

\* Exchange.autoCancelOrders; getTicker(undefined) throws
autoCancelOrders(w, market) ==
    IF market = NoMarket THEN Throw(Logged(w, "autoCancelOrders", 0))
    ELSE LET ticker == w.st.tickers[market]
         IN cancelListed(Logged(w, "autoCancelOrders", 0), SortedIds({id \in OpenIds(w.st, market) :
                ShouldAutoCancel(w.st.openOrders[id], ticker, w.now)}))

\* Exchange.syncOrderBook([market]): live mode takes the remote's book
syncOrderBook(w, market) ==
    IF w.st.simulation \/ w.books[market].failed THEN w
    ELSE [w EXCEPT !.st.orderBooks[market] = w.books[market].book]

\* a repricing that takes the order for the only best quote whatever the
\* amount of the best level
StickyPriceAnyAmount(order, ticker, orderBook) ==
    IF order.side = Buy
    THEN IF Len(orderBook.bids) > 1 /\ order.price = orderBook.bids[1][1]
         THEN orderBook.bids[2][1]
         ELSE ticker.bid
    ELSE IF Len(orderBook.asks) > 1 /\ order.price = orderBook.asks[1][1]
         THEN orderBook.asks[2][1]
         ELSE ticker.ask

\* a repricing that reads the best level of the order book where
\* _updateStickyOrder reads the ticker
StickyPriceFromBook(order, ticker, orderBook) ==
    LET side == IF order.side = Buy THEN orderBook.bids ELSE orderBook.asks
    IN IF Len(side) > 1 /\ order.remaining >= side[1][2] /\ order.price = side[1][1]
       THEN side[2][1]
       ELSE IF Len(side) > 0 THEN side[1][1]
       ELSE IF order.side = Buy THEN ticker.bid ELSE ticker.ask

\* the price _updateStickyOrder moves the order to
StickyPrice(order, ticker, orderBook) ==
    IF order.side = Buy
    THEN IF /\ Len(orderBook.bids) > 1
            /\ order.remaining >= orderBook.bids[1][2]
            /\ order.price = orderBook.bids[1][1]
         THEN orderBook.bids[2][1]
         ELSE ticker.bid
    ELSE IF /\ Len(orderBook.asks) > 1
            /\ order.remaining >= orderBook.asks[1][2]
            /\ order.price = orderBook.asks[1][1]
         THEN orderBook.asks[2][1]
         ELSE ticker.ask

\* a replacement placed at the price the order had
RepricedOptionsOldPrice(order, newPrice, newAutoCancel) ==
    Options(order.market, Limit, order.side, order.remaining, order.price,
            newAutoCancel, order.autoCancelAtFillPercentage, Absent, TRUE)

\* a replacement that starts the order's autoCancel period anew
RepricedOptionsFullBudget(order, newPrice, newAutoCancel) ==
    Options(order.market, Limit, order.side, order.remaining, newPrice,
            order.autoCancel, order.autoCancelAtFillPercentage, Absent, TRUE)

\* the options of the order that replaces a sticky order
RepricedOptions(order, newPrice, newAutoCancel) ==
    Options(order.market, Limit, order.side, order.remaining, newPrice,
            newAutoCancel, order.autoCancelAtFillPercentage, Absent, TRUE)

\* Exchange._updateStickyOrder
_updateStickyOrder(w, order) ==
    IF order.sticky # StickyTrue THEN w
    ELSE
    LET ticker == w.st.tickers[order.market]
        w1 == syncOrderBook(w, order.market)
        newPrice == StickyPrice(order, ticker, w1.st.orderBooks[order.market])
    IN
    IF order.price = newPrice THEN w1
    ELSE
    LET w2 == cancelOrder(w1, order)
        w3 == [w2 EXCEPT !.st.cancelledOrders = Del(@, order.id)]
        newAutoCancel == IF order.autoCancel > 0
                         THEN order.autoCancel - (w.now - order.timestamp)
                         ELSE 0
        w4 == createOrder(w3, RepricedOptions(order, newPrice, newAutoCancel))
    IN
    IF w2.err THEN [w2 EXCEPT !.err = FALSE]
    ELSE IF /\ (order.autoCancel = 0 \/ newAutoCancel > 0)
            /\ order.remaining >= getMinDealAmount(w.st, order.market)
    THEN [w4 EXCEPT !.err = FALSE, !.id = 0]
    ELSE w3

RECURSIVE stickyEach(_, _)
stickyEach(w, ids) ==
    IF ids = <<>> THEN w
    ELSE LET id == Head(ids)
         IN stickyEach(IF id \in DOMAIN w.st.openOrders
                       THEN Logged(_updateStickyOrder(w, w.st.openOrders[id]),
                                   "updateStickyOrders", id)
                       ELSE w,
                       Tail(ids))

\* Exchange.updateStickyOrders
updateStickyOrders(w, market) ==
    stickyEach(Logged(w, "updateStickyOrders", 0), SortedIds({id \in OpenIds(w.st, market) :
                               w.st.openOrders[id].sticky = StickyTrue}))

\* an order is purged as soon as it is a week old
ExpiredAtAge(order, now) == order.timestamp + PurgeAge <= now

\* the order is older than purgeAge
Expired(order, now) == order.timestamp + PurgeAge < now

\* Exchange.purgeOrderList
purgeOrderList(w, market) ==
    LET closed == w.st.closedOrders
        cancelled == w.st.cancelledOrders
        purgeClosed == {id \in DOMAIN closed :
                          /\ InMarket(closed[id], market)
                          /\ Expired(closed[id], w.now)}
        purgeCancelled == {id \in DOMAIN cancelled :
                             Expired(cancelled[id], w.now)}
    IN [Logged(w, "purgeOrderList", 0) EXCEPT
          !.st.closedOrders = [id \in DOMAIN closed \ purgeClosed |-> closed[id]],
          !.st.cancelledOrders =
              [id \in DOMAIN cancelled \ purgeCancelled |-> cancelled[id]]]

\* ------------------------------------------------------------- syncOrders
\* what fetchOpenOrders answers: a list of the remote's open orders, or a
\* failure
FetchFailed == [failed |-> TRUE, orders |-> <<>>]
Fetched(orders) == [failed |-> FALSE, orders |-> orders]
RemoteIds(ccxtOrders) == {ccxtOrders[i].id : i \in 1..Len(ccxtOrders)}
RemoteOrder(ccxtOrders, id) ==
    LET i == CHOOSE i \in 1..Len(ccxtOrders) : ccxtOrders[i].id = id
    IN ccxtOrders[i]

\* Object.assign(order, {status, filled, remaining, fee}) from the remote order
AssignRemote(order, ccxtOrder) ==
    [order EXCEPT !.status = ccxtOrder.status, !.filled = ccxtOrder.filled,
                  !.remaining = ccxtOrder.remaining]

\* a first loop that closes every open order the remote does not list,
\* cancelled or not
RECURSIVE syncLocalIgnoringCancelled(_, _, _)
syncLocalIgnoringCancelled(w, ids, ccxtOrders) ==
    IF ids = <<>> THEN w
    ELSE
    LET id == Head(ids)
        order == w.st.openOrders[id]
        closed == [order EXCEPT !.timestampClosed = w.now, !.status = "closed",
                                !.filled = order.amount, !.remaining = 0]
        w1 == IF id \notin RemoteIds(ccxtOrders)
              THEN Logged([w EXCEPT !.st.closedOrders = Put(@, id, closed),
                                    !.st.openOrders = Del(@, id)],
                          "syncOrders", id)
              ELSE [w EXCEPT !.st.openOrders[id] =
                                 AssignRemote(order, RemoteOrder(ccxtOrders, id))]
    IN syncLocalIgnoringCancelled(w1, Tail(ids), ccxtOrders)

\* first loop of syncOrders: the local open orders of the market; the log
\* entry of an order is the event limit_order_fulfilled posted for it
RECURSIVE syncLocal(_, _, _)
syncLocal(w, ids, ccxtOrders) ==
    IF ids = <<>> THEN w
    ELSE
    LET id == Head(ids)
        order == w.st.openOrders[id]
        closed == [order EXCEPT !.timestampClosed = w.now, !.status = "closed",
                                !.filled = order.amount, !.remaining = 0]
        w1 == IF id \notin RemoteIds(ccxtOrders)
              THEN IF id \notin DOMAIN w.st.cancelledOrders
                   THEN Logged([w EXCEPT !.st.closedOrders = Put(@, id, closed),
                                         !.st.openOrders = Del(@, id)],
                               "syncOrders", id)
                   ELSE w
              ELSE [w EXCEPT !.st.openOrders[id] =
                                 AssignRemote(order, RemoteOrder(ccxtOrders, id))]
    IN syncLocal(w1, Tail(ids), ccxtOrders)

\* second loop of syncOrders: the remote's open orders.  A cancelled order
\* that was partly filled is one object in closedOrders and cancelledOrders,
\* so restoring it changes both.
RECURSIVE syncRemote(_, _)
syncRemote(w, ccxtOrders) ==
    IF ccxtOrders = <<>> \/ w.err THEN w
    ELSE
    LET ccxtOrder == Head(ccxtOrders)
        id == ccxtOrder.id
        st == w.st
        restored == AssignRemote(st.closedOrders[id], ccxtOrder)
        shared == /\ id \in DOMAIN st.cancelledOrders
                  /\ st.cancelledOrders[id] = st.closedOrders[id]
        w1 == IF id \in DOMAIN st.openOrders THEN w
              ELSE IF id \in DOMAIN st.closedOrders
              THEN [w EXCEPT !.st.openOrders = Put(@, id, restored),
                             !.st.closedOrders = Del(@, id),
                             !.st.cancelledOrders =
                                 IF shared THEN Put(@, id, restored) ELSE @]
              ELSE IF st.forceAutoCancel
              THEN IF ~w.dryRun THEN cancelOrder(w, ccxtOrder) ELSE w
              ELSE [w EXCEPT !.st.openOrders = Put(@, id, ccxtOrder)]
    IN syncRemote(w1, Tail(ccxtOrders))

\* a third loop that cancels nothing and keeps every order
RECURSIVE syncKeepingZombies(_, _)
syncKeepingZombies(w, ids) ==
    IF ids = <<>> \/ w.err THEN w
    ELSE syncKeepingZombies(w, Tail(ids))

\* third loop of syncOrders: zombie orders are cancelled remotely and dropped
RECURSIVE syncZombies(_, _)
syncZombies(w, ids) ==
    IF ids = <<>> \/ w.err THEN w
    ELSE
    LET id == Head(ids)
        order == w.st.openOrders[id]
        w1 == IF w.dryRun THEN w ELSE [w EXCEPT !.sent = @ + 1]
        w2 == IF order.sticky # StickyUndefined THEN w
              ELSE IF ~w.dryRun /\ id \in w.failCancel THEN Throw(w1)
              ELSE [w1 EXCEPT !.st.openOrders = Del(@, id)]
    IN syncZombies(w2, Tail(ids))

\* the log entry of syncOrders when the remote's list and the open orders
\* left by the three loops differ in length
LengthsDiffer == 0 - 1

\* Exchange.syncOrders; every exception is caught and answered with false
syncOrders(w0, market, fetch) ==
    LET w == Logged(w0, "syncOrders", 0)
    IN
    IF w.st.simulation THEN [w EXCEPT !.ok = TRUE]
    ELSE IF fetch.failed THEN [w EXCEPT !.ok = FALSE]
    ELSE
    LET ccxtOrders == fetch.orders
        w1 == syncLocal(w, SortedIds(OpenIds(w.st, market)), ccxtOrders)
        w2 == syncRemote(w1, ccxtOrders)
        w3 == syncZombies(w2, SortedIds(OpenIds(w2.st, market)))
        countOpenOrders == Cardinality(OpenIds(w3.st, market))
    IN
    IF w2.err THEN [w2 EXCEPT !.err = FALSE, !.ok = FALSE]
    ELSE IF w3.err THEN [w3 EXCEPT !.err = FALSE, !.ok = FALSE]
    ELSE IF Len(ccxtOrders) # countOpenOrders
    THEN [Logged(w3, "syncOrders", LengthsDiffer) EXCEPT !.ok = FALSE]
    ELSE [w3 EXCEPT !.ok = TRUE]

\* an update that goes on with the later steps whatever syncOrders answers
updateIgnoringSync(w, market, fetch) ==
    LET w1 == syncOrders(w, market, fetch)
        w2 == IF w.st.simulation THEN fulfillLimitOrders(w1, market) ELSE w1
        w3 == autoCancelOrders(w2, market)
        w4 == updateStickyOrders(w3, market)
        w5 == purgeOrderList(w4, market)
    IN
    IF w.st.lockdown THEN [w EXCEPT !.ok = FALSE]
    ELSE IF w3.err THEN w3
    ELSE [w5 EXCEPT !.ok = TRUE]

\* Exchange.update
update(w, market, fetch) ==
    LET w1 == syncOrders(w, market, fetch)
        w2 == IF w.st.simulation THEN fulfillLimitOrders(w1, market) ELSE w1
        w3 == autoCancelOrders(w2, market)
        w4 == updateStickyOrders(w3, market)
        w5 == purgeOrderList(w4, market)
    IN
    IF w.st.lockdown THEN [w EXCEPT !.ok = FALSE]
    ELSE IF ~w1.ok THEN w1
    ELSE IF w3.err THEN w3
    ELSE [w5 EXCEPT !.ok = TRUE]

\* Exchange.lockdown and Exchange.resetLockdown
lockdown(w) == [w EXCEPT !.st.lockdown = TRUE]
resetLockdown(w) == [w EXCEPT !.st.lockdown = FALSE]

\* ----------------------------------------------------- the mirror's state
ZeroBalance == [free |-> 0, used |-> 0]

\* new Exchange(data): the defaults of the constructor merged with `data`
NewState(simulation, forceAutoCancel, fee, reserves, balances, tickers, orderBooks) ==
    [simulation |-> simulation, forceAutoCancel |-> forceAutoCancel,
     lockdown |-> FALSE, fee |-> fee, reserves |-> reserves,
     minDealAmounts |-> [m \in Markets |-> 0],
     balances |-> balances, openOrders |-> EmptyMap,
     closedOrders |-> EmptyMap, cancelledOrders |-> EmptyMap,
     tickers |-> tickers, orderBooks |-> orderBooks]

NoReserves == [c \in Currencies |-> 0]
NoBalances == [c \in Currencies |-> ZeroBalance]
EmptyBook == [bids |-> <<>>, asks |-> <<>>]
NoBooks == [m \in Markets |-> EmptyBook]
NoCandle == [timestamp |-> 0, low |-> 0, high |-> 0, volume |-> 0]

\* free + used as the mirror stores them
RawTotal(st, c) == st.balances[c].free + st.balances[c].used

\* the balances of the mirrors of Spec, SpecLive and SpecLockdown
\* an order book whose best quotes are the ticker's and one unit deep
DeepBook ==
    [bids |-> <<<<99, Unit>>, <<98, Unit>>>>,
     asks |-> <<<<101, Unit>>, <<102, Unit>>>>]

\* an order book whose best levels hold more than any order of the mirror
BigBook ==
    [bids |-> <<<<99, 5 * Unit>>, <<98, Unit>>>>,
     asks |-> <<<<101, 5 * Unit>>, <<102, Unit>>>>]

\* fetchOrderBook answers the deep book for BTC/USDT
DeepFetches == [NoFetches EXCEPT ![BTCUSDT] = FetchedBook(DeepBook)]

InitialBalances ==
    [NoBalances EXCEPT !["USDT"].free = 200 * Unit, !["BTC"].free = 2 * Unit]

\* the context of a call made now, with the remote failures it meets
Here(books, failCancel, failCreate) ==
    Ctx(state, dryRun, nextOrderId,
        Env(currentTime, candles, books, failCancel, failCreate))

\* the call is the one made just before, with the same arguments and the
\* same answers of the remote
SameCall(prev, call) ==
    prev.op = call.op /\ \A k \in DOMAIN call : prev[k] = call[k]

\* the call returns: the mirror holds the call's final state
Return(w, call) ==
    /\ state' = w.st
    /\ nextOrderId' = w.nextId
    /\ lastCall' = call @@ [sent |-> w.sent, err |-> w.err, id |-> w.id,
                            ok |-> w.ok, steps |-> w.steps,
                            again |-> SameCall(lastCall, call)]

OrdersOf(st) ==
    {st.openOrders[i] : i \in DOMAIN st.openOrders}
        \cup {st.closedOrders[i] : i \in DOMAIN st.closedOrders}
        \cup {st.cancelledOrders[i] : i \in DOMAIN st.cancelledOrders}

\* ------------------------------------------------ the agent and its runs
\* tradingAgentModel's fields that the drawdown guard reads and writes;
\* maxDrawdown is in percent, 0 when the field is not set
NoModel == [paused |-> FALSE, peakMarketAmount |-> 0, maxDrawdown |-> 0]
NoTotal == Absent
NoEvent == [type |-> "none", peak |-> 0, currentTotal |-> 0]
RunSlots == 1..MaxRuns
IdleRun ==
    [pc |-> "idle", source |-> "none", dryRun |-> FALSE, model |-> NoModel,
     modified |-> {}, total |-> NoTotal, event |-> NoEvent,
     afterPause |-> FALSE]
\* fired: the drawdown guard of a run that is not a dry run has set paused;
\* late: a run started after that has placed an order
NoGuard == [fired |-> FALSE, late |-> FALSE]

\* the processes that start at once
MaxProcs == 2
Procs == 1..MaxProcs

\* a process that is not in createRepeatingJob
NoCreator == [pc |-> "idle", name |-> "", data |-> "", existing |-> <<>>]

\* the job store is empty and no process is creating a job
JobsIdle ==
    /\ jobs = <<>>
    /\ creators = [p \in Procs |-> NoCreator]

\* the process is up and agenda polls the job store
DaemonUp == [pc |-> "running", polling |-> TRUE, exitCode |-> Absent]

\* the runs of doUpdateTradingAgent that are followed
MaxTicks == 2

\* no run of doUpdateTradingAgent has started
NoTick ==
    [pc |-> "idle", count |-> 0, dry |-> FALSE,
     synced |-> [market \in Markets |-> "pending"],
     ran |-> [market \in Markets |-> "pending"],
     saved |-> FALSE]

\* computeQuote has not been called
NoQuote == [called |-> FALSE]

\* the ids of the exchange documents and the instances built for them
ExchangeIds == {"a", "b"}
MaxInstances == 3
NoInstance == 0
NoCaller == [pc |-> "idle", id |-> "", instance |-> NoInstance]

\* no exchange has been asked for
ManagerIdle ==
    /\ exchanges = [id \in ExchangeIds |-> NoInstance]
    /\ callers = [p \in Procs |-> NoCaller]
    /\ created = <<>>

\* the state of a market the strategy has not entered
Idle == "Idle"
TryingToEnter == "TryingToEnter"
HasPosition == "HasPosition"
TryingToLeave == "TryingToLeave"
AgentStates == {Idle, TryingToEnter, HasPosition, TryingToLeave}
NoMarketState ==
    [agentState |-> Idle, entryPrice |-> Absent, entryTimestamp |-> Absent,
     ratio |-> 0]

\* no market is active and no tick of the strategy is under way
NoSettings ==
    [canTrade |-> FALSE, uptrend |-> FALSE, position |-> FALSE, orders |-> FALSE]
NoUniverse ==
    [pc |-> "idle", dry |-> FALSE, settings |-> [m \in Markets |-> NoSettings],
     persisted |-> {}, active |-> {}]

ServiceIdle ==
    /\ JobsIdle
    /\ daemon = DaemonUp
    /\ tick = NoTick
    /\ lastQuote = NoQuote
    /\ marketState = NoMarketState
    /\ universe = NoUniverse
    /\ ManagerIdle

\* no run of the agent is started
RunsIdle ==
    /\ agent = NoModel
    /\ job = [lockedAt |-> Absent]
    /\ runs = [slot \in RunSlots |-> IdleRun]
    /\ clock = 0
    /\ guard = NoGuard

AgentIdle == RunsIdle /\ ServiceIdle

\* ------------------------------------------- entry points of the mirror
\* a caller calls createOrder(options)
CreateOrder(options, maxOrders) ==
    /\ nextOrderId <= maxOrders
    /\ \E failCreate \in IF state.simulation \/ dryRun THEN {FALSE} ELSE BOOLEAN :
         Return(createOrder(Here(NoFetches, {}, failCreate), options),
                [op |-> "createOrder", options |-> options,
                 failed |-> failCreate])
    /\ UNCHANGED <<dryRun, currentTime, candles>>

\* a caller calls cancelOrder(order) with an order object it holds
CancelOrder(order) ==
    /\ \E fail \in IF state.simulation \/ dryRun THEN {FALSE} ELSE BOOLEAN :
         Return(cancelOrder(Here(NoFetches, IF fail THEN {order.id} ELSE {}, FALSE), order),
                [op |-> "cancelOrder", order |-> order, failed |-> fail])
    /\ UNCHANGED <<dryRun, currentTime, candles>>

\* a caller calls cancelOrderById(id)
CancelOrderById(id) ==
    /\ \E fail \in IF state.simulation \/ dryRun THEN {FALSE} ELSE BOOLEAN :
         Return(cancelOrderById(Here(NoFetches, IF fail THEN {id} ELSE {}, FALSE), id),
                [op |-> "cancelOrderById", orderId |-> id, failed |-> fail])
    /\ UNCHANGED <<dryRun, currentTime, candles>>

\* a caller calls cancelAllOrders(market, side)
CancelAllOrders(market, side) ==
    /\ \E failCancel \in IF state.simulation \/ dryRun THEN {{}}
                          ELSE SUBSET DOMAIN state.openOrders :
         Return(cancelAllOrders(Here(NoFetches, failCancel, FALSE), market, side),
                [op |-> "cancelAllOrders", market |-> market, side |-> side,
                 failCancel |-> failCancel])
    /\ UNCHANGED <<dryRun, currentTime, candles>>

\* a caller calls deposit(currency, amount)
Deposit(currency, amount, maxDeposits) ==
    /\ RawTotal(state, currency)
          < InitialBalances[currency].free + maxDeposits * amount
    /\ Return(deposit(Here(NoFetches, {}, FALSE), currency, amount),
              [op |-> "deposit", currency |-> currency, amount |-> amount])
    /\ UNCHANGED <<dryRun, currentTime, candles>>

\* a caller calls withdraw(currency, amount)
Withdraw(currency, amount) ==
    /\ Return(withdraw(Here(NoFetches, {}, FALSE), currency, amount),
              [op |-> "withdraw", currency |-> currency, amount |-> amount])
    /\ UNCHANGED <<dryRun, currentTime, candles>>

\* a caller calls setReserve(currency, amount)
SetReserve(currency, amount) ==
    /\ Return(setReserve(Here(NoFetches, {}, FALSE), currency, amount),
              [op |-> "setReserve", currency |-> currency, amount |-> amount])
    /\ UNCHANGED <<dryRun, currentTime, candles>>

\* a caller calls clearReserve(currency)
ClearReserve(currency) ==
    /\ Return(clearReserve(Here(NoFetches, {}, FALSE), currency),
              [op |-> "clearReserve", currency |-> currency])
    /\ UNCHANGED <<dryRun, currentTime, candles>>

\* a caller calls lockdown() or resetLockdown()
Lockdown ==
    /\ Return(lockdown(Here(NoFetches, {}, FALSE)), [op |-> "lockdown"])
    /\ UNCHANGED <<dryRun, currentTime, candles>>

ResetLockdown ==
    /\ Return(resetLockdown(Here(NoFetches, {}, FALSE)), [op |-> "resetLockdown"])
    /\ UNCHANGED <<dryRun, currentTime, candles>>

\* a caller calls syncOrders(market); the remote answers ccxtOrders and
\* refuses to cancel the orders of failCancel
SyncOrders(market, fetch, failCancel) ==
    /\ Return(syncOrders(Here(NoFetches, failCancel, FALSE), market, fetch),
              [op |-> "syncOrders", market |-> market, remote |-> fetch,
               failCancel |-> failCancel,
               remoteIds |-> RemoteIds(fetch.orders)])
    /\ UNCHANGED <<dryRun, currentTime, candles>>

\* a caller calls update(market)
Update(market, fetch, books, maxIds) ==
    /\ nextOrderId <= maxIds
    /\ Return(update(Here(books, {}, FALSE), market, fetch),
              [op |-> "update", market |-> market, remote |-> fetch,
               books |-> books, remoteIds |-> RemoteIds(fetch.orders)])
    /\ UNCHANGED <<dryRun, currentTime, candles>>

\* a subclass runs one reconciliation step of update on its own
UpdateStickyOrders(market, books, maxIds) ==
    /\ nextOrderId <= maxIds
    /\ Return(updateStickyOrders(Here(books, {}, FALSE), market),
              [op |-> "updateStickyOrders", market |-> market,
               books |-> books])
    /\ UNCHANGED <<dryRun, currentTime, candles>>

PurgeOrderList(market) ==
    /\ Return(purgeOrderList(Here(NoFetches, {}, FALSE), market),
              [op |-> "purgeOrderList", market |-> market])
    /\ UNCHANGED <<dryRun, currentTime, candles>>

\* time passes
Tick(days, maxTime) ==
    /\ currentTime + days <= maxTime
    /\ currentTime' = currentTime + days
    /\ lastCall' = [op |-> "tick"]
    /\ UNCHANGED <<state, dryRun, nextOrderId, candles>>

\* the order as the remote exchange reports it, `filled` of it executed
CcxtOrder(id, market, side, price, amount, filled) ==
    [id |-> id, timestamp |-> 0, timestampClosed |-> Absent, status |-> "open",
     market |-> market, type |-> Limit, side |-> side, price |-> price,
     amount |-> amount, filled |-> filled, remaining |-> amount - filled,
     autoCancel |-> 0, autoCancelAtFillPercentage |-> Absent,
     autoCancelAtPriceLevel |-> Absent, sticky |-> StickyUndefined]

\* the remote's view of the orders the mirror knows, and of one order placed
\* outside the agent
ForeignId == 9
RemoteViews(st, market) ==
    {CcxtOrder(o.id, o.market, o.side, o.price, o.amount, filled) :
        o \in {x \in OrdersOf(st) : InMarket(x, market) /\ x.type = Limit},
        filled \in {0, Unit \div 2}}
      \cup {CcxtOrder(ForeignId, m, Sell, 100, Unit, 0) :
              m \in {x \in Markets : market \in {NoMarket, x}}}

\* the lists fetchOpenOrders can answer: at most MaxRemote orders, in id
\* order, one view per id
RemoteLists(st, market) ==
    {<<>>} \cup {<<a>> : a \in RemoteViews(st, market)}
      \cup {<<a, b>> : <<a, b>> \in
              {x \in RemoteViews(st, market) \X RemoteViews(st, market) :
                  x[1].id < x[2].id}}

Fetches(st, market) == {Fetched(list) : list \in RemoteLists(st, market)}

\* ======================================================================
\* SpecLimit: a simulated mirror on which callers place and cancel Limit
\* orders only
\* ======================================================================
TickersLimit ==
    [m \in Markets |-> IF m = BTCUSDT THEN [bid |-> 99, ask |-> 101]
                                     ELSE [bid |-> 9, ask |-> 11]]

LimitOptions ==
    {Options(m, Limit, side, amount, price, 0, Absent, Absent, FALSE) :
        m \in Markets, side \in {Buy, Sell},
        amount \in {Unit, 3 * Unit}, price \in {100}}

InitLimit ==
    /\ \E usdtReserve \in {0, 50 * Unit}, btc \in {0, 2 * Unit} :
         state = NewState(TRUE, FALSE, DefaultFee,
                     [NoReserves EXCEPT !["USDT"] = usdtReserve],
                     [NoBalances EXCEPT !["USDT"].free = 200 * Unit + usdtReserve,
                                        !["BTC"].free = btc,
                                        !["ETH"].free = 2 * Unit],
                     TickersLimit, NoBooks)
    /\ dryRun = FALSE
    /\ currentTime = 0
    /\ nextOrderId = 1
    /\ candles = [m \in Markets |-> NoCandle]
    /\ lastCall = [op |-> "new"]
    /\ AgentIdle

NextLimit ==
    \/ \E options \in LimitOptions :
          CreateOrder(options, MaxOrdersLimit) /\ UNCHANGED agentVars
    \/ \E order \in OrdersOf(state) : CancelOrder(order) /\ UNCHANGED agentVars

SpecLimit == InitLimit /\ [][NextLimit]_vars

S1Options == Options(BTCUSDT, Limit, Buy, Unit, 100, 0, Absent, Absent, FALSE)
S1Before == [free |-> 200 * Unit, used |-> 0]
S1After == [free |-> 100 * Unit, used |-> 100 * Unit]
IsS1Order(order) ==
    /\ order.market = BTCUSDT /\ order.type = Limit /\ order.side = Buy
    /\ order.amount = Unit /\ order.price = 100

\* C1: in simulation every createOrder and cancelOrder call on a Limit order
\* leaves free + used of every currency as it was (the raw balance and the
\* Balance that getBalance exposes); a Limit Buy of 1 at 100 on quote free 200
\* gives {free: 100, used: 100} and its cancel gives back {free: 200, used: 0}.
C1_TotalPreserved ==
    [][/\ \A c \in Currencies :
            /\ RawTotal(state', c) = RawTotal(state, c)
            /\ getBalance(state', c).total = getBalance(state, c).total
       /\ ( /\ lastCall'.op = "createOrder"
            /\ lastCall'.options = S1Options
            /\ state.balances["USDT"] = S1Before
            /\ state.reserves["USDT"] = 0 )
          => /\ state'.balances["USDT"] = S1After
             /\ lastCall'.id \in DOMAIN state'.openOrders
             /\ IsS1Order(state'.openOrders[lastCall'.id])
       /\ ( /\ lastCall'.op = "cancelOrder"
            /\ IsS1Order(lastCall'.order)
            /\ lastCall'.order.id \in DOMAIN state.openOrders
            /\ state.balances["USDT"] = S1After )
          => /\ state'.balances["USDT"] = S1Before
             /\ lastCall'.order.id \notin DOMAIN state'.openOrders
      ]_vars

\* the S1 order was placed on quote free 200 and has just been cancelled
C1_Witness ==
    /\ lastCall.op = "cancelOrder"
    /\ IsS1Order(lastCall.order)
    /\ lastCall.order.id \in DOMAIN state.cancelledOrders
    /\ state.balances["USDT"] = S1Before
    /\ state.reserves["USDT"] = 0
    /\ ~lastCall.err

\* ======================================================================
\* Spec: a simulated mirror, its orders and their reconciliation over time
\* ======================================================================
MirrorOptions ==
    {Options(BTCUSDT, Limit, Buy, Unit, 100, 0, Absent, Absent, FALSE),
     Options(BTCUSDT, Limit, Sell, Unit, 100, 2, Absent, Absent, TRUE),
     Options(BTCUSDT, Market, Buy, Unit, Absent, 2, Absent, Absent, FALSE)}

\* the remote publishes a candle of the market
NewCandle(market, candle) ==
    /\ state.simulation
    /\ candles[market] # candle
    /\ candles' = [candles EXCEPT ![market] = candle]
    /\ lastCall' = [op |-> "candle"]
    /\ UNCHANGED <<state, dryRun, currentTime, nextOrderId>>

Init ==
    /\ \E book \in {EmptyBook, DeepBook, BigBook} :
         state = NewState(TRUE, FALSE, DefaultFee, NoReserves, InitialBalances,
                     TickersLimit, [NoBooks EXCEPT ![BTCUSDT] = book])
    /\ dryRun = FALSE
    /\ currentTime = 0
    /\ nextOrderId = 1
    /\ candles = [m \in Markets |-> NoCandle]
    /\ lastCall = [op |-> "new"]
    /\ AgentIdle

Next ==
    \/ \E options \in MirrorOptions :
          CreateOrder(options, MaxOrders) /\ UNCHANGED agentVars
    \/ \E order \in OrdersOf(state) : CancelOrder(order) /\ UNCHANGED agentVars
    \/ \E id \in 1..MaxOrders : CancelOrderById(id) /\ UNCHANGED agentVars
    \/ CancelAllOrders(BTCUSDT, NoSide) /\ UNCHANGED agentVars
    \/ Update(BTCUSDT, Fetched(<<>>), NoFetches, MaxIds) /\ UNCHANGED agentVars
    \/ UpdateStickyOrders(BTCUSDT, NoFetches, MaxIds) /\ UNCHANGED agentVars
    \/ \E market \in Markets : PurgeOrderList(market) /\ UNCHANGED agentVars
    \/ NewCandle(BTCUSDT, [timestamp |-> currentTime, low |-> 90, high |-> 110,
                           volume |-> 1]) /\ UNCHANGED agentVars
    \/ Tick(PurgeAge, MaxTime) /\ UNCHANGED agentVars

Spec == Init /\ [][Next]_vars

\* ======================================================================
\* SpecLive: a live mirror and the remote exchange's open-order lists
\* ======================================================================
InitLive ==
    /\ \E forceAutoCancel \in BOOLEAN :
         state = NewState(FALSE, forceAutoCancel, DefaultFee, NoReserves,
                     InitialBalances, TickersLimit, NoBooks)
    /\ dryRun \in BOOLEAN
    /\ currentTime = 0
    /\ nextOrderId = 1
    /\ candles = [m \in Markets |-> NoCandle]
    /\ lastCall = [op |-> "new"]
    /\ AgentIdle

NextLive ==
    \/ \E options \in MirrorOptions :
          CreateOrder(options, MaxOrders) /\ UNCHANGED agentVars
    \/ \E order \in OrdersOf(state) : CancelOrder(order) /\ UNCHANGED agentVars
    \/ \E id \in 1..MaxOrders : CancelOrderById(id) /\ UNCHANGED agentVars
    \/ CancelAllOrders(BTCUSDT, NoSide) /\ UNCHANGED agentVars
    \/ \E fetch \in Fetches(state, BTCUSDT) \cup {FetchFailed} :
          SyncOrders(BTCUSDT, fetch, {}) /\ UNCHANGED agentVars
    \/ \E fetch \in Fetches(state, BTCUSDT) :
          Update(BTCUSDT, fetch, NoFetches, MaxOrders) /\ UNCHANGED agentVars

SpecLive == InitLive /\ [][NextLive]_vars
\* ----------------------------------------------------------------------
\* limit_order_fulfilled has been posted for the order in the call
PostedFulfilled(call, id) ==
    \E i \in 1..Len(call.steps) :
       call.steps[i] = [step |-> "syncOrders", id |-> id]

\* C29: on a live mirror syncOrders(market) moves each open order of the
\* market whose id is neither in the remote's list nor in cancelledOrders
\* to closedOrders with filled = amount, remaining = 0 and timestampClosed
\* = now and posts limit_order_fulfilled for it; an open order whose id is
\* in the remote's list or in cancelledOrders is not closed and no event is
\* posted for it
C29_AbsentOrdersFulfilled ==
    [][(lastCall'.op = "syncOrders" /\ ~lastCall'.remote.failed) =>
          \A id \in OpenIds(state, lastCall'.market) :
             IF id \notin lastCall'.remoteIds /\ id \notin DOMAIN state.cancelledOrders
             THEN /\ id \notin DOMAIN state'.openOrders
                  /\ id \in DOMAIN state'.closedOrders
                  /\ state'.closedOrders[id] =
                        [state.openOrders[id] EXCEPT
                            !.status = "closed",
                            !.filled = state.openOrders[id].amount,
                            !.remaining = 0,
                            !.timestampClosed = currentTime]
                  /\ PostedFulfilled(lastCall', id)
             ELSE /\ ~PostedFulfilled(lastCall', id)
                  /\ id \in DOMAIN state'.closedOrders
                        => id \in DOMAIN state.closedOrders]_vars

\* a syncOrders has closed an order the remote no longer lists and has left
\* open one the remote no longer lists but that is in cancelledOrders
C29_Witness ==
    /\ lastCall.op = "syncOrders" /\ ~lastCall.remote.failed
    /\ \E id \in DOMAIN state.closedOrders : PostedFulfilled(lastCall, id)
    /\ \E id \in DOMAIN state.openOrders :
          /\ id \notin lastCall.remoteIds
          /\ id \in DOMAIN state.cancelledOrders

\* ----------------------------------------------------------------------
\* the remote's open orders the mirror does not hold open
NotPresent(st, ccxtOrders) ==
    {i \in 1..Len(ccxtOrders) : ccxtOrders[i].id \notin DOMAIN st.openOrders}

\* C30 as stated: after syncOrders(market) on a live mirror every remote
\* open order that was not present locally and was restored from
\* closedOrders or, without forceAutoCancel, inserted as-is is in
\* openOrders, and the open orders of the market are as many as the
\* remote's list
C30_RemoteOrdersOpen ==
    [][(lastCall'.op = "syncOrders" /\ ~lastCall'.remote.failed) =>
          LET ccxtOrders == lastCall'.remote.orders
          IN /\ \A i \in NotPresent(state, ccxtOrders) :
                   (\/ ccxtOrders[i].id \in DOMAIN state.closedOrders
                    \/ ~state.forceAutoCancel)
                      => ccxtOrders[i].id \in DOMAIN state'.openOrders
             /\ Cardinality(OpenIds(state', lastCall'.market))
                   = Len(ccxtOrders)]_vars

\* C30 amended: a remote open order not present locally is open after
\* syncOrders(market) exactly if it was restored from closedOrders and has
\* a sticky setting, and then with the remote's status, filled, remaining
\* and fee; any other is not in openOrders afterwards, cancelled under
\* forceAutoCancel or inserted, or restored, and dropped again as a zombie;
\* and syncOrders answers true only if the open orders of the market are
\* as many as the remote's list
C30_OnlyRestoredOpen ==
    [][(lastCall'.op = "syncOrders" /\ ~lastCall'.remote.failed) =>
          LET ccxtOrders == lastCall'.remote.orders
          IN /\ \A i \in NotPresent(state, ccxtOrders) :
                   LET ccxtOrder == ccxtOrders[i]
                       id == ccxtOrder.id
                   IN IF /\ id \in DOMAIN state.closedOrders
                         /\ state.closedOrders[id].sticky # StickyUndefined
                      THEN /\ id \in DOMAIN state'.openOrders
                           /\ id \notin DOMAIN state'.closedOrders
                           /\ state'.openOrders[id] =
                                 AssignRemote(state.closedOrders[id], ccxtOrder)
                      ELSE id \notin DOMAIN state'.openOrders
             /\ lastCall'.ok =>
                   Cardinality(OpenIds(state', lastCall'.market))
                      = Len(ccxtOrders)]_vars

\* a syncOrders without forceAutoCancel has restored one remote order and
\* dropped another the mirror never held, and has answered false
C30_Witness ==
    /\ lastCall.op = "syncOrders" /\ ~lastCall.remote.failed
    /\ ~state.forceAutoCancel
    /\ ~lastCall.ok
    /\ \E i, j \in 1..Len(lastCall.remote.orders) :
          LET a == lastCall.remote.orders[i].id
              b == lastCall.remote.orders[j].id
          IN /\ a \in DOMAIN state.openOrders
             /\ a \in DOMAIN state.cancelledOrders
             /\ b = ForeignId
             /\ b \notin DOMAIN state.openOrders

\* ======================================================================
\* SpecLockdown: a mirror whose callers use every entry point, and its
\* circuit breaker
\* ======================================================================
LockdownOptions ==
    {Options(BTCUSDT, Limit, Buy, Unit, 100, 2, Absent, Absent, FALSE),
     Options(BTCUSDT, Market, Sell, Unit, Absent, 2, Absent, Absent, FALSE)}

InitLockdown ==
    /\ \E simulation \in BOOLEAN :
         state = NewState(simulation, FALSE, DefaultFee, NoReserves,
                     InitialBalances, TickersLimit, NoBooks)
    /\ dryRun = FALSE
    /\ currentTime = 0
    /\ nextOrderId = 1
    /\ candles = [m \in Markets |-> NoCandle]
    /\ lastCall = [op |-> "new"]
    /\ AgentIdle

NextLockdown ==
    \/ \E options \in LockdownOptions :
          CreateOrder(options, MaxOrdersLockdown) /\ UNCHANGED agentVars
    \/ \E order \in OrdersOf(state) : CancelOrder(order) /\ UNCHANGED agentVars
    \/ CancelAllOrders(BTCUSDT, Buy) /\ UNCHANGED agentVars
    \/ Deposit("USDT", 100 * Unit, MaxDeposits) /\ UNCHANGED agentVars
    \/ Withdraw("USDT", 100 * Unit) /\ UNCHANGED agentVars
    \/ SetReserve("USDT", 50 * Unit) /\ UNCHANGED agentVars
    \/ ClearReserve("USDT") /\ UNCHANGED agentVars
    \/ Lockdown /\ UNCHANGED agentVars
    \/ ResetLockdown /\ UNCHANGED agentVars
    \/ \E fetch \in Fetches(state, BTCUSDT), failCancel \in {{}, {ForeignId}} :
          SyncOrders(BTCUSDT, fetch, failCancel) /\ UNCHANGED agentVars
    \/ \E fetch \in Fetches(state, BTCUSDT), books \in {NoFetches, DeepFetches} :
          Update(BTCUSDT, fetch, books, MaxOrdersLockdown) /\ UNCHANGED agentVars

SpecLockdown == InitLockdown /\ [][NextLockdown]_vars

\* every id of the mirror's three order maps
OrderIds(st) ==
    DOMAIN st.openOrders \cup DOMAIN st.closedOrders \cup DOMAIN st.cancelledOrders

\* C2: every order id of the mirror is open, or closed, or cancelled, or
\* cancelled and closed, and never open together with closed or cancelled;
\* and every order in closedOrders is filled completely, or was partly filled
\* when it was cancelled.
C2_OrderSets ==
    /\ \A id \in DOMAIN state.openOrders :
          id \notin DOMAIN state.closedOrders \cup DOMAIN state.cancelledOrders
    /\ \A id \in DOMAIN state.closedOrders :
          \/ state.closedOrders[id].filled = state.closedOrders[id].amount
          \/ /\ id \in DOMAIN state.cancelledOrders
             /\ state.closedOrders[id].filled > 0

\* C10 as stated: no step moves an id of closedOrders into openOrders
C10_ClosedNeverReopens ==
    [][\A id \in DOMAIN state.closedOrders : id \notin DOMAIN state'.openOrders]_vars

\* C10: an id of closedOrders moves into openOrders only when syncOrders,
\* called directly or by update, finds the id in the remote's open orders
C10_ReopenedOnlyBySync ==
    [][\A id \in DOMAIN state.closedOrders :
          id \in DOMAIN state'.openOrders
             => /\ lastCall'.op \in {"syncOrders", "update"}
                /\ id \in lastCall'.remoteIds]_vars

\* syncOrders has just put back an order that it had closed before
C10_Witness ==
    /\ lastCall.op = "syncOrders"
    /\ \E id \in lastCall.remoteIds \cap DOMAIN state.openOrders :
          state.openOrders[id].timestampClosed # Absent
\* the entry points the circuit breaker is said to stop
MutatingOps ==
    {"createOrder", "cancelOrder", "cancelAllOrders", "deposit", "withdraw",
     "setReserve", "clearReserve", "update", "syncOrders"}

\* C3: while lockdown is on, a call of a mutating entry point changes no
\* order map and no balance and sends no create or cancel request to the
\* remote exchange
C3_LockdownFailsFast ==
    [][(state.lockdown /\ lastCall'.op \in MutatingOps)
          => /\ state'.openOrders = state.openOrders
             /\ state'.closedOrders = state.closedOrders
             /\ state'.cancelledOrders = state.cancelledOrders
             /\ state'.balances = state.balances
             /\ lastCall'.sent = 0]_vars
\* C7 as stated: a second update(market) in a row, with the remote answering
\* as it did to the first, leaves the mirror as the first call left it
C7_SecondUpdateIdentical ==
    [][(lastCall'.op = "update" /\ lastCall'.again) => state' = state]_vars
\* the sticky open orders of the market
StickyIds(st, market) ==
    {id \in OpenIds(st, market) : st.openOrders[id].sticky = StickyTrue}

\* the order can not be the only best quote of its side of the book: the
\* side has fewer than two levels, or its best level holds more than the order
NeverSoleBest(order, orderBook) ==
    LET side == IF order.side = Buy THEN orderBook.bids ELSE orderBook.asks
    IN Len(side) <= 1 \/ order.remaining < side[1][2]

StickyQuiet(st, market) ==
    \A id \in StickyIds(st, market) :
       NeverSoleBest(st.openOrders[id], st.orderBooks[st.openOrders[id].market])

\* C7: in simulation a second update(market) in a row, at the same clock
\* time, leaves the mirror as the first call left it, provided no sticky open
\* order of the market can be the only best quote of its side of the book
C7_SecondUpdateQuiet ==
    [][( /\ lastCall'.op = "update" /\ lastCall'.again
         /\ StickyQuiet(state, lastCall'.market) )
          => state' = state /\ nextOrderId' = nextOrderId]_vars

\* update has run twice in a row on a mirror that holds a sticky order which
\* the first call moved to the ticker's price
C7_Witness ==
    /\ lastCall.op = "update" /\ lastCall.again
    /\ nextOrderId = 3
    /\ StickyQuiet(state, BTCUSDT)
    /\ \E id \in StickyIds(state, BTCUSDT) :
          /\ id = 2
          /\ state.openOrders[id].price = state.tickers[BTCUSDT].ask

\* C8 as stated: a second updateStickyOrders(market) in a row cancels and
\* re-places nothing and leaves the open orders and their prices alone
C8_ReplayIsNoOp ==
    [][(lastCall'.op = "updateStickyOrders" /\ lastCall'.again)
          => state'.openOrders = state.openOrders /\ nextOrderId' = nextOrderId]_vars

\* C8: a second updateStickyOrders(market) in a row changes nothing, provided
\* no sticky open order of the market can be the only best quote of its side
\* of the book
C8_ReplayQuiet ==
    [][( /\ lastCall'.op = "updateStickyOrders" /\ lastCall'.again
         /\ StickyQuiet(state, lastCall'.market) )
          => state' = state /\ nextOrderId' = nextOrderId]_vars
\* updateStickyOrders has run twice in a row on a mirror that holds a
\* sticky order which the first call moved to the ticker's price
C8_Witness ==
    /\ lastCall.op = "updateStickyOrders" /\ lastCall.again
    /\ StickyQuiet(state, BTCUSDT)
    /\ \E id \in StickyIds(state, BTCUSDT) :
          /\ id > 1
          /\ state.openOrders[id].price = state.tickers[BTCUSDT].ask
\* C9 as stated: after purgeOrderList(market) every remaining closed or
\* cancelled order has timestamp > now - 7 days, and a closed order that was
\* purged had been closed for 7 days or more (where its closure was recorded)
C9_PurgeByClosure ==
    [][lastCall'.op = "purgeOrderList"
          => /\ \A id \in DOMAIN state'.closedOrders :
                   state'.closedOrders[id].timestamp > currentTime - PurgeAge
             /\ \A id \in DOMAIN state'.cancelledOrders :
                   state'.cancelledOrders[id].timestamp > currentTime - PurgeAge
             /\ \A id \in DOMAIN state.closedOrders \ DOMAIN state'.closedOrders :
                   \/ state.closedOrders[id].timestampClosed = Absent
                   \/ state.closedOrders[id].timestampClosed + PurgeAge
                         <= currentTime]_vars

\* C9: after purgeOrderList(market) every remaining cancelled order, and
\* every remaining closed order of the market, was created no more than 7
\* days ago (timestamp >= now - 7 days); exactly the orders created more than
\* 7 days ago are purged, whenever they were closed; closed orders of other
\* markets, open orders and balances are left alone
C9_PurgeByCreation ==
    [][lastCall'.op = "purgeOrderList"
          => /\ \A id \in DOMAIN state.closedOrders :
                   id \in DOMAIN state'.closedOrders
                      <=> \/ state.closedOrders[id].timestamp >= currentTime - PurgeAge
                          \/ ~InMarket(state.closedOrders[id], lastCall'.market)
             /\ \A id \in DOMAIN state.cancelledOrders :
                   id \in DOMAIN state'.cancelledOrders
                      <=> state.cancelledOrders[id].timestamp >= currentTime - PurgeAge
             /\ DOMAIN state'.closedOrders \subseteq DOMAIN state.closedOrders
             /\ DOMAIN state'.cancelledOrders \subseteq DOMAIN state.cancelledOrders
             /\ state'.openOrders = state.openOrders
             /\ state'.balances = state.balances]_vars

\* purgeOrderList has dropped the order created 14 days ago and kept the
\* order created exactly 7 days ago
C9_Witness ==
    /\ lastCall.op = "purgeOrderList" /\ lastCall.market = BTCUSDT
    /\ nextOrderId = 3
    /\ OrderIds(state) = {2}
    /\ 2 \in DOMAIN state.closedOrders
    /\ state.closedOrders[2].timestamp + PurgeAge = currentTime
\* ======================================================================
\* SpecAgent: the runs of one trading agent, started by the repeating job
\* and by the HTTP routes, with the drawdown guard. The mirror of each run
\* is built from the saved exchange and is seen here through what the run
\* does with it: whether reconciliation succeeded and re-placed a sticky
\* order, the total balance, and the orders the strategy places.

\* (peak - total) / peak > (maxDrawdown || 0.2); 0 / 0 is NaN, and NaN
\* is greater than nothing
DrawdownExceeded(peak, total, maxDrawdown) ==
    /\ peak # 0
    /\ (peak - total) * 100 >
           (IF maxDrawdown = 0 THEN DefaultMaxDrawdown ELSE maxDrawdown) * peak

\* checkDrawdown that leaves the peak as it was loaded
checkDrawdownKeepPeak(model, total) ==
    IF total = NoTotal
    THEN [model |-> model, event |-> NoEvent]
    ELSE LET peak == model.peakMarketAmount
             reached == DrawdownExceeded(peak, total, model.maxDrawdown)
         IN [model |-> [model EXCEPT !.paused = @ \/ reached],
             event |-> IF reached
                       THEN [type |-> "max_drawdown_reached", peak |-> peak,
                             currentTotal |-> total]
                       ELSE NoEvent]

\* checkDrawdown(exchange, tradingAgentModel, log), total being
\* exchange.getTotalBalanceFromMarkets(false, activeMarkets)
checkDrawdown(model, total) ==
    IF total = NoTotal
    THEN [model |-> model, event |-> NoEvent]
    ELSE LET peak == Max(total, model.peakMarketAmount)
             reached == DrawdownExceeded(peak, total, model.maxDrawdown)
         IN [model |-> [model EXCEPT !.peakMarketAmount = peak,
                                     !.paused = @ \/ reached],
             event |-> IF reached
                       THEN [type |-> "max_drawdown_reached", peak |-> peak,
                             currentTotal |-> total]
                       ELSE NoEvent]

\* the run in the slot returns: agenda's done() releases the job
RunReturns(slot) ==
    /\ runs' = [runs EXCEPT ![slot] = IdleRun]
    /\ job' = IF runs[slot].source = "job" THEN [job EXCEPT !.lockedAt = Absent]
              ELSE job

\* updateTradingAgent(data) loads the agent and the exchange, and
\* doUpdateTradingAgent returns if the agent is paused or the exchange is
\* in lockdown
StartRun(slot, source, dry, locked) ==
    /\ runs[slot].pc = "idle"
    /\ \A other \in 1..(slot - 1) : runs[other].pc # "idle"
    /\ runs' = IF (~dry /\ agent.paused) \/ locked
               THEN runs
               ELSE [runs EXCEPT ![slot] =
                        [IdleRun EXCEPT !.pc = "reconcile", !.source = source,
                                        !.dryRun = dry, !.model = agent,
                                        !.afterPause = guard.fired]]

\* the repeating job of the agent is due and not locked, or its lock is
\* older than the lock lifetime: agenda locks it and calls the processor
JobTick(slot, locked) ==
    /\ job.lockedAt = Absent \/ clock >= job.lockedAt + LockLifetime
    /\ StartRun(slot, "job", FALSE, locked)
    /\ job' = [job EXCEPT !.lockedAt = IF runs'[slot].pc = "idle" THEN Absent
                                      ELSE clock]
    /\ UNCHANGED <<agent, clock, guard>>

\* POST /:agentId and POST /:agentId/dryrun call updateTradingAgent
HttpPost(slot, dry, locked) ==
    /\ StartRun(slot, "http", dry, locked)
    /\ UNCHANGED <<agent, job, clock, guard>>

\* syncOrders and update of every active market, during which update may
\* re-place a sticky order, then the check of double-sided orders
Reconcile(slot, outcome, replaced) ==
    /\ runs[slot].pc = "reconcile"
    /\ IF outcome = "ok"
       THEN runs' = [runs EXCEPT ![slot].pc = "sync"] /\ job' = job
       ELSE RunReturns(slot)
    /\ guard' = [guard EXCEPT !.late = @ \/ (replaced /\ runs[slot].afterPause)]
    /\ UNCHANGED <<agent, clock>>

\* syncTickers and syncBalance, then checkDrawdown on the loaded agent
SyncAndCheck(slot, synced, total) ==
    /\ runs[slot].pc = "sync"
    /\ IF synced
       THEN LET run == runs[slot]
                checked == checkDrawdown(run.model, total)
            IN /\ runs' = [runs EXCEPT ![slot] =
                      [run EXCEPT !.pc = "beforeRun", !.model = checked.model,
                           !.modified = {field \in DOMAIN run.model :
                               checked.model[field] # run.model[field]},
                           !.total = total, !.event = checked.event]]
               /\ guard' = [guard EXCEPT !.fired =
                               @ \/ (checked.event # NoEvent /\ ~run.dryRun)]
               /\ job' = job
       ELSE RunReturns(slot) /\ guard' = guard
    /\ UNCHANGED <<agent, clock>>

\* strategy.beforeRun()
BeforeRun(slot, prepared) ==
    /\ runs[slot].pc = "beforeRun"
    /\ IF prepared
       THEN /\ runs' = [runs EXCEPT ![slot].pc = "strategy",
                                    ![slot].total = NoTotal,
                                    ![slot].event = NoEvent]
            /\ job' = job
       ELSE RunReturns(slot)
    /\ UNCHANGED <<agent, clock, guard>>

\* strategy.runForMarket(market) of every active market
RunStrategy(slot, orders) ==
    /\ runs[slot].pc = "strategy"
    /\ runs' = [runs EXCEPT ![slot].pc = "save"]
    /\ guard' = [guard EXCEPT !.late = @ \/ (orders > 0 /\ runs[slot].afterPause)]
    /\ UNCHANGED <<agent, job, clock>>

\* unless the run is a dry run, tradingAgentModel.save() writes the fields
\* the run has modified
Save(slot) ==
    /\ runs[slot].pc = "save"
    /\ LET run == runs[slot]
       IN agent' = IF run.dryRun THEN agent
                   ELSE [field \in DOMAIN agent |->
                            IF field \in run.modified THEN run.model[field]
                            ELSE agent[field]]
    /\ RunReturns(slot)
    /\ UNCHANGED <<clock, guard>>

\* an operator clears the paused flag of the agent
OperatorResume ==
    /\ agent.paused
    /\ agent' = [agent EXCEPT !.paused = FALSE]
    /\ guard' = NoGuard
    /\ UNCHANGED <<job, runs, clock>>

\* time passes
Elapse(hours, maxClock) ==
    /\ clock + hours <= maxClock
    /\ clock' = clock + hours
    /\ UNCHANGED <<agent, job, runs, guard>>

Totals == {0, 700, 1000}

InitAgent ==
    /\ state = NewState(FALSE, FALSE, DefaultFee, NoReserves, InitialBalances,
                   TickersLimit, NoBooks)
    /\ dryRun = FALSE
    /\ currentTime = 0
    /\ nextOrderId = 1
    /\ candles = [m \in Markets |-> NoCandle]
    /\ lastCall = [op |-> "new"]
    /\ agent \in {[paused |-> FALSE, peakMarketAmount |-> 0, maxDrawdown |-> 0],
                  [paused |-> FALSE, peakMarketAmount |-> 1000, maxDrawdown |-> 40]}
    /\ job = [lockedAt |-> Absent]
    /\ runs = [slot \in RunSlots |-> IdleRun]
    /\ clock = 0
    /\ guard = NoGuard
    /\ ServiceIdle

NextAgent ==
    \/ \E slot \in RunSlots, locked \in BOOLEAN :
          JobTick(slot, locked) /\ UNCHANGED <<mirrorVars, serviceVars>>
    \/ \E slot \in RunSlots, dry \in BOOLEAN, locked \in BOOLEAN :
          HttpPost(slot, dry, locked) /\ UNCHANGED <<mirrorVars, serviceVars>>
    \/ \E slot \in RunSlots, outcome \in {"ok", "failed", "doubleSided"},
          replaced \in BOOLEAN :
          Reconcile(slot, outcome, replaced) /\ UNCHANGED <<mirrorVars, serviceVars>>
    \/ \E slot \in RunSlots, synced \in BOOLEAN, total \in Totals \cup {NoTotal} :
          SyncAndCheck(slot, synced, total) /\ UNCHANGED <<mirrorVars, serviceVars>>
    \/ \E slot \in RunSlots, prepared \in BOOLEAN :
          BeforeRun(slot, prepared) /\ UNCHANGED <<mirrorVars, serviceVars>>
    \/ \E slot \in RunSlots, orders \in {0, 1} :
          RunStrategy(slot, orders) /\ UNCHANGED <<mirrorVars, serviceVars>>
    \/ \E slot \in RunSlots : Save(slot) /\ UNCHANGED <<mirrorVars, serviceVars>>
    \/ OperatorResume /\ UNCHANGED <<mirrorVars, serviceVars>>
    \/ Elapse(LockLifetime, MaxClock) /\ UNCHANGED <<mirrorVars, serviceVars>>

SpecAgent == InitAgent /\ [][NextAgent]_vars
\* ----------------------------------------------------------------------
\* C4: at any time at most one run of the trading agent's update is in
\* progress, whether the runs are started by job ticks, by a job tick after
\* the lock lifetime of a run still in progress, or by the HTTP routes
RunsInProgress == {slot \in RunSlots : runs[slot].pc # "idle"}
C4_AtMostOneRun == Cardinality(RunsInProgress) <= 1

\* C5: once the drawdown guard has set paused, no run started afterwards
\* places an order, be it the re-placement of a sticky order during
\* reconciliation, an order of the strategy, or an order of a dry run,
\* until an operator clears the flag
C5_NoOrderAfterPause == ~guard.late

\* C6 as stated: the drawdown guard is evaluated after each run, so a run
\* returns only after its guard has been evaluated
C6_GuardAfterEachRun ==
    [][\A slot \in RunSlots :
          (runs[slot].pc # "idle" /\ runs'[slot].pc = "idle")
              => runs[slot].pc \in {"beforeRun", "save"}]_vars

\* C6 as the program has it: the guard is evaluated in the runs that get
\* past reconciliation and the sync of tickers and balance, before the
\* strategy runs. It leaves the agent alone when the total is unknown;
\* otherwise the peak becomes the larger of peak and total, the agent is
\* paused if it was or if (peak - total) / peak exceeds maxDrawdown (20% by
\* default) with a peak other than 0, and max_drawdown_reached carries that
\* peak and total exactly when the drawdown is exceeded
C6_GuardBeforeStrategy ==
    [][\A slot \in RunSlots :
          /\ runs'[slot].pc = "strategy"
                => runs[slot].pc \in {"beforeRun", "strategy"}
          /\ (runs[slot].pc = "sync" /\ runs'[slot].pc = "beforeRun") =>
               LET before == runs[slot].model
                   after == runs'[slot].model
                   total == runs'[slot].total
                   event == runs'[slot].event
                   peak == after.peakMarketAmount
                   limit == IF before.maxDrawdown = 0 THEN 20
                            ELSE before.maxDrawdown
                   exceeded == peak # 0 /\ (peak - total) * 100 > limit * peak
               IN IF total = NoTotal
                  THEN after = before /\ event = NoEvent
                  ELSE /\ peak = Max(before.peakMarketAmount, total)
                       /\ after.maxDrawdown = before.maxDrawdown
                       /\ after.paused = (before.paused \/ exceeded)
                       /\ exceeded => event = [type |-> "max_drawdown_reached",
                                               peak |-> peak,
                                               currentTotal |-> total]
                       /\ ~exceeded => event = NoEvent]_vars

\* the guard of a run has seen a total of 700 under a peak of 1000 with the
\* default maxDrawdown, paused the agent and posted the event
C6_Witness ==
    \E slot \in RunSlots :
        /\ runs[slot].pc = "beforeRun"
        /\ runs[slot].total = 700
        /\ runs[slot].model = [paused |-> TRUE, peakMarketAmount |-> 1000,
                               maxDrawdown |-> 0]
        /\ runs[slot].modified = {"paused"}
        /\ runs[slot].event = [type |-> "max_drawdown_reached", peak |-> 1000,
                               currentTotal |-> 700]
\* ----------------------------------------------------------------------
\* C11: every order the mirror holds has amount > 0, price > 0 and
\* filled + remaining = amount, also right after a createOrder whose
\* requested amount exceeds the free balance and is clamped
C11_OrderWellFormed ==
    \A order \in OrdersOf(state) :
        /\ order.amount > 0
        /\ order.price > 0
        /\ order.filled + order.remaining = order.amount
\* ======================================================================
\* SpecUpdate: a simulated or live mirror whose orders are reconciled by
\* update(market) as time passes, candles arrive, the remote's order list
\* changes or fails to arrive, and the mirror is locked down
\* ======================================================================
\* what fetchOpenOrders answers to update: nothing in simulation; else a
\* failure, or a list of at most one of the remote's open orders
UpdateFetches(st, market) ==
    IF st.simulation THEN {Fetched(<<>>)}
    ELSE {FetchFailed, Fetched(<<>>)}
           \cup {Fetched(<<a>>) : a \in RemoteViews(st, market)}

InitUpdate ==
    /\ \E simulation \in BOOLEAN :
         state = NewState(simulation, FALSE, DefaultFee, NoReserves,
                     InitialBalances, TickersLimit,
                     [NoBooks EXCEPT ![BTCUSDT] = DeepBook])
    /\ dryRun = FALSE
    /\ currentTime = 0
    /\ nextOrderId = 1
    /\ candles = [m \in Markets |-> NoCandle]
    /\ lastCall = [op |-> "new"]
    /\ AgentIdle

NextUpdate ==
    \/ \E options \in MirrorOptions :
          CreateOrder(options, MaxOrders) /\ UNCHANGED agentVars
    \/ \E fetch \in UpdateFetches(state, BTCUSDT) :
          Update(BTCUSDT, fetch, NoFetches, MaxIds) /\ UNCHANGED agentVars
    \/ NewCandle(BTCUSDT, [timestamp |-> currentTime, low |-> 90, high |-> 110,
                           volume |-> 1]) /\ UNCHANGED agentVars
    \/ Tick(PurgeAge, MaxTime) /\ UNCHANGED agentVars
    \/ Lockdown /\ UNCHANGED agentVars

SpecUpdate == InitUpdate /\ [][NextUpdate]_vars
\* ----------------------------------------------------------------------
\* the place of a reconciliation step in update
StepRank(step) ==
    CASE step = "syncOrders" -> 1
      [] step = "fulfillLimitOrders" -> 2
      [] step = "autoCancelOrders" -> 3
      [] step = "updateStickyOrders" -> 4
      [] step = "purgeOrderList" -> 5

IsStepEntry(entry) == entry.id = 0

\* the steps a call has entered, in the order it entered them
StepsEntered(steps) ==
    LET entries == SelectSeq(steps, IsStepEntry)
    IN [i \in 1..Len(entries) |-> entries[i].step]

\* C12: within one update(market) the steps run in the order syncOrders,
\* fulfillLimitOrders (simulation only), autoCancelOrders,
\* updateStickyOrders, purgeOrderList; a step is entered only after every
\* per-order action of the step before it has completed, and no step
\* follows a syncOrders that failed (nor any step runs under lockdown)
C12_StepsInOrder ==
    [][lastCall'.op = "update" =>
         LET steps == lastCall'.steps
             syncFailed == \/ ~lastCall'.ok
                           \/ ~state.simulation /\ lastCall'.remote.failed
         IN /\ \A i, j \in 1..Len(steps) :
                  i < j => /\ StepRank(steps[i].step) <= StepRank(steps[j].step)
                           /\ steps[j].id = 0 =>
                                StepRank(steps[i].step) < StepRank(steps[j].step)
            /\ StepsEntered(steps) =
                 IF state.lockdown THEN <<>>
                 ELSE IF syncFailed THEN <<"syncOrders">>
                 ELSE IF state.simulation
                 THEN <<"syncOrders", "fulfillLimitOrders", "autoCancelOrders",
                        "updateStickyOrders", "purgeOrderList">>
                 ELSE <<"syncOrders", "autoCancelOrders", "updateStickyOrders",
                        "purgeOrderList">>]_vars

\* an update of a simulated mirror has looked at two orders for fulfilment,
\* cancelled one for its age and repriced a sticky one, then purged
C12_Witness ==
    /\ lastCall.op = "update" /\ lastCall.ok /\ state.simulation
    /\ LET steps == lastCall.steps
           Acted(step) == {steps[i].id : i \in {k \in 1..Len(steps) :
                               steps[k].step = step /\ steps[k].id > 0}}
       IN /\ Acted("fulfillLimitOrders") = {1, 2}
          /\ Acted("autoCancelOrders") # {}
          /\ Acted("updateStickyOrders") # {}
          /\ steps[Len(steps)].step = "purgeOrderList"
\* ----------------------------------------------------------------------
\* C13: cancelOrder rejects an order whose status is not open, and so an
\* order that is already cancelled: cancelling it again throws and releases
\* nothing
C13_CancelOnlyOpen ==
    [][(/\ lastCall'.op = "cancelOrder"
        /\ \/ lastCall'.order.status # "open"
           \/ lastCall'.order.id \in DOMAIN state.cancelledOrders)
          => lastCall'.err /\ state'.balances = state.balances]_vars
\* ======================================================================
\* SpecRemote: a live mirror whose remote exchange may refuse to create or
\* to cancel an order
\* ======================================================================
RemoteOptions ==
    {Options(BTCUSDT, Limit, Buy, Unit, 100, 0, Absent, Absent, FALSE),
     Options(BTCUSDT, Limit, Sell, Unit, 100, 0, Absent, Absent, FALSE),
     Options(ETHUSDT, Limit, Sell, Unit, 10, 0, Absent, Absent, FALSE)}

InitRemote ==
    /\ state = NewState(FALSE, FALSE, DefaultFee, NoReserves,
                   [InitialBalances EXCEPT !["ETH"].free = 2 * Unit],
                   TickersLimit, NoBooks)
    /\ dryRun \in BOOLEAN
    /\ currentTime = 0
    /\ nextOrderId = 1
    /\ candles = [m \in Markets |-> NoCandle]
    /\ lastCall = [op |-> "new"]
    /\ AgentIdle

NextRemote ==
    \/ \E options \in RemoteOptions :
          CreateOrder(options, MaxOrdersRemote) /\ UNCHANGED agentVars
    \/ \E order \in OrdersOf(state) : CancelOrder(order) /\ UNCHANGED agentVars
    \/ \E market \in {NoMarket, BTCUSDT}, side \in {NoSide, Sell} :
          CancelAllOrders(market, side) /\ UNCHANGED agentVars

SpecRemote == InitRemote /\ [][NextRemote]_vars

\* ----------------------------------------------------------------------
\* C14: on a live mirror, when the remote cancel call fails, cancelOrder
\* returns without throwing and leaves the mirror as it was: the order stays
\* in openOrders, cancelledOrders and closedOrders gain nothing and the
\* balances are unchanged
C14_FailedCancelKeepsState ==
    [][(/\ lastCall'.op = "cancelOrder"
        /\ lastCall'.failed /\ lastCall'.sent = 1)
          => /\ ~lastCall'.err
             /\ state'.openOrders = state.openOrders
             /\ state'.cancelledOrders = state.cancelledOrders
             /\ state'.closedOrders = state.closedOrders
             /\ state'.balances = state.balances]_vars

\* the remote has refused to cancel an order that is open, with funds
\* reserved for it
C14_Witness ==
    /\ lastCall.op = "cancelOrder" /\ lastCall.failed /\ lastCall.sent = 1
    /\ lastCall.order.id \in DOMAIN state.openOrders
    /\ state.openOrders[lastCall.order.id] = lastCall.order
    /\ \E c \in Currencies : state.balances[c].used > 0

\* C15: on a live mirror, when the adapter's createOrder throws, createOrder
\* returns no id without throwing and stores no order in openOrders or
\* closedOrders
C15_FailedCreateStoresNothing ==
    [][(/\ lastCall'.op = "createOrder"
        /\ lastCall'.failed /\ lastCall'.sent = 1)
          => /\ ~lastCall'.err
             /\ lastCall'.id = 0
             /\ state'.openOrders = state.openOrders
             /\ state'.closedOrders = state.closedOrders]_vars

\* the adapter has refused a Limit order and a later one has been placed
C15_Witness ==
    /\ lastCall.op = "createOrder" /\ lastCall.failed /\ lastCall.sent = 1
    /\ lastCall.id = 0 /\ lastCall.options.type = Limit
    /\ nextOrderId = 2
    /\ OrderIds(state) = {}
\* ----------------------------------------------------------------------
\* C16: cancelAllOrders(market, side) tries every open order of the market
\* and side; an order the remote refuses to cancel stays open and does not
\* stop the batch: every other matching order is cancelled, the orders that
\* do not match are left alone, and the call does not fail
C16_BatchSurvivesFailure ==
    [][(lastCall'.op = "cancelAllOrders" /\ ~state.lockdown) =>
         LET call == lastCall'
             live == ~state.simulation /\ ~dryRun
         IN /\ ~call.err
            /\ \A id \in DOMAIN state.openOrders :
                 LET order == state.openOrders[id]
                     matches == /\ call.side \in {NoSide, order.side}
                                /\ InMarket(order, call.market)
                 IN IF matches /\ ~(live /\ id \in call.failCancel)
                    THEN /\ id \notin DOMAIN state'.openOrders
                         /\ id \in DOMAIN state'.cancelledOrders
                    ELSE /\ id \in DOMAIN state'.openOrders
                         /\ state'.openOrders[id] = order]_vars

\* the remote has refused to cancel order 1, and order 2 has been cancelled
C16_Witness ==
    /\ lastCall.op = "cancelAllOrders" /\ lastCall.failCancel = {1}
    /\ lastCall.sent = 2 /\ ~lastCall.err
    /\ DOMAIN state.openOrders = {1}
    /\ 2 \in DOMAIN state.cancelledOrders

\* ----------------------------------------------------------------------
\* the call logged that the remote's list and the open orders differ in length
Mismatch(call) ==
    \E i \in 1..Len(call.steps) :
        call.steps[i] = [step |-> "syncOrders", id |-> LengthsDiffer]

\* C17: a syncOrders that finds the count of open orders different from the
\* length of the remote's list answers false and leaves the open, closed and
\* cancelled orders as they were before the call, and has sent no cancel to
\* the remote
C17_MismatchLeavesState ==
    [][(lastCall'.op = "syncOrders" /\ Mismatch(lastCall')) =>
         /\ ~lastCall'.ok
         /\ state'.openOrders = state.openOrders
         /\ state'.closedOrders = state.closedOrders
         /\ state'.cancelledOrders = state.cancelledOrders
         /\ lastCall'.sent = 0]_vars

\* ----------------------------------------------------------------------
\* C18: an update of a simulated mirror fulfils an open Limit order of the
\* market exactly when the latest candle is later than the order, has traded
\* (volume > 0) and went below the price of a Buy or above the price of a
\* Sell; the fulfilled order, of either side, is in closedOrders with status
\* closed, filled = amount, remaining 0 and timestampClosed = the time of the
\* update, and (shown for an update with one open order) its reservation has
\* left `used` and the other currency is credited net of fee
\* (orders older than purgeAge aside: the same update purges them)
C18_FulfilledExactlyWhen ==
    [][(lastCall'.op = "update" /\ lastCall'.ok /\ state.simulation) =>
         \A id \in DOMAIN state.openOrders :
            LET order == state.openOrders[id]
                latestCandle == candles[order.market]
                quote == quoteCurrency(order.market)
                base == baseCurrency(order.market)
                due == /\ latestCandle.timestamp > order.timestamp
                       /\ latestCandle.volume > 0
                       /\ IF order.side = Buy
                          THEN latestCandle.low < order.price
                          ELSE latestCandle.high > order.price
                fulfilled == /\ id \in DOMAIN state'.closedOrders
                             /\ state'.closedOrders[id].status = "closed"
                before == state.balances
                after == state'.balances
            IN (/\ order.type = Limit /\ InMarket(order, lastCall'.market)
                /\ ~Expired(order, currentTime)) =>
                 /\ fulfilled <=> due
                 /\ due =>
                      /\ id \notin DOMAIN state'.openOrders
                      /\ state'.closedOrders[id] =
                           [order EXCEPT !.status = "closed",
                                         !.filled = order.amount,
                                         !.remaining = 0,
                                         !.timestampClosed = currentTime]
                 /\ (due /\ DOMAIN state.openOrders = {id}) =>
                      IF order.side = Buy
                      THEN /\ after[quote].used =
                                before[quote].used - order.amount * order.price
                           /\ after[quote].free = before[quote].free
                           /\ after[base].free =
                                before[base].free + LessRate(order.amount, state.fee)
                           /\ after[base].used = before[base].used
                      ELSE /\ after[base].used = before[base].used - order.amount
                           /\ after[base].free = before[base].free
                           /\ after[quote].free = before[quote].free
                                + LessRate(order.amount * order.price, state.fee)
                           /\ after[quote].used = before[quote].used]_vars

\* ======================================================================
\* SpecAutoCancel: orders with each of the auto-cancel settings, on a
\* simulated and on a live mirror, and update(market) as time passes and
\* the remote reports partial fills
\* ======================================================================
AutoCancelOptions ==
    {Options(BTCUSDT, Limit, Buy, Unit, 100, 1, Absent, Absent, FALSE),
     Options(BTCUSDT, Limit, Buy, Unit, 100, 0, 50, Absent, FALSE),
     Options(BTCUSDT, Limit, Buy, Unit, 100, 0, Absent, 100, FALSE),
     Options(BTCUSDT, Limit, Buy, Unit, 100, 0, Absent, 101, FALSE),
     Options(BTCUSDT, Limit, Sell, Unit, 100, 0, Absent, 100, FALSE),
     Options(BTCUSDT, Limit, Sell, Unit, 100, 0, Absent, 99, FALSE),
     Options(ETHUSDT, Limit, Sell, Unit, 10, 1, Absent, Absent, FALSE)}

InitAutoCancel ==
    /\ \E simulation \in BOOLEAN :
         state = NewState(simulation, FALSE, DefaultFee, NoReserves,
                     [InitialBalances EXCEPT !["ETH"].free = 2 * Unit],
                     TickersLimit, NoBooks)
    /\ dryRun = FALSE
    /\ currentTime = 0
    /\ nextOrderId = 1
    /\ candles = [m \in Markets |-> NoCandle]
    /\ lastCall = [op |-> "new"]
    /\ AgentIdle

NextAutoCancel ==
    \/ \E options \in AutoCancelOptions :
          CreateOrder(options, MaxOrdersAutoCancel) /\ UNCHANGED agentVars
    \/ \E fetch \in UpdateFetches(state, BTCUSDT) :
          Update(BTCUSDT, fetch, NoFetches, MaxIds) /\ UNCHANGED agentVars
    \/ Tick(1, MaxTimeAutoCancel) /\ UNCHANGED agentVars

SpecAutoCancel == InitAutoCancel /\ [][NextAutoCancel]_vars

\* ----------------------------------------------------------------------
\* C19: an update(market) that gets through (remote cancels succeeding)
\* cancels an open order of the market, as it stands after syncOrders and
\* simulated fulfilment, exactly when its age exceeds its autoCancel, or its
\* filled share has reached autoCancelAtFillPercentage, or the ask of its
\* market is above the autoCancelAtPriceLevel of a Buy, or the bid below
\* that of a Sell; no other order is cancelled, none of another market
\* (orders older than purgeAge aside: the same update purges them)
C19_AutoCancelExactly ==
    [][(lastCall'.op = "update" /\ lastCall'.ok) =>
         LET call == lastCall'
         IN \A id \in DOMAIN state.openOrders \ DOMAIN state.cancelledOrders :
            LET placed == state.openOrders[id]
                latestCandle == candles[placed.market]
                fulfilled == /\ placed.type = Limit
                             /\ latestCandle.timestamp > placed.timestamp
                             /\ latestCandle.volume > 0
                             /\ IF placed.side = Buy
                                THEN latestCandle.low < placed.price
                                ELSE latestCandle.high > placed.price
                stillOpen == IF state.simulation THEN ~fulfilled
                             ELSE id \in call.remoteIds
                order == IF state.simulation THEN placed
                         ELSE AssignRemote(placed,
                                           RemoteOrder(call.remote.orders, id))
                ticker == state.tickers[placed.market]
                due == \/ /\ order.autoCancel > 0
                          /\ currentTime - order.timestamp > order.autoCancel
                       \/ order.filled * 100 >=
                            order.autoCancelAtFillPercentage * order.amount
                       \/ /\ order.side = Buy
                          /\ ticker.ask > order.autoCancelAtPriceLevel
                       \/ /\ order.side = Sell
                          /\ ticker.bid < order.autoCancelAtPriceLevel
            IN IF placed.market # call.market
               THEN /\ id \in DOMAIN state'.openOrders
                    /\ state'.openOrders[id] = placed
               ELSE (stillOpen /\ ~Expired(placed, currentTime)) =>
                      IF due
                      THEN /\ id \notin DOMAIN state'.openOrders
                           /\ id \in DOMAIN state'.cancelledOrders
                      ELSE /\ id \in DOMAIN state'.openOrders
                           /\ id \notin DOMAIN state'.cancelledOrders]_vars

\* an update has cancelled one order for its settings and left another open
C19_Witness ==
    /\ lastCall.op = "update" /\ lastCall.ok
    /\ \E i \in 1..Len(lastCall.steps) :
          /\ lastCall.steps[i].step = "autoCancelOrders"
          /\ lastCall.steps[i].id \in DOMAIN state.cancelledOrders
    /\ \E id \in DOMAIN state.openOrders :
          state.openOrders[id].market = lastCall.market

\* ======================================================================
\* SpecSticky: sticky orders on a live mirror whose ticker says bid 99 and
\* ask 101, and updateStickyOrders(market) while the remote's order book
\* changes between the calls
\* ======================================================================
StickyOptions ==
    {Options(BTCUSDT, Limit, side, Unit, price, 0, Absent, Absent, TRUE) :
        side \in {Buy, Sell}, price \in {100, 101}}

\* the books fetchOrderBook answers: the best ask is the ticker's or one
\* below it, and holds one unit or five
StickyBooks ==
    {[bids |-> <<<<99, Unit>>, <<98, Unit>>>>,
      asks |-> <<<<ask, amount>>, <<102, Unit>>>>] :
        ask \in {100, 101}, amount \in {Unit, 5 * Unit}}
      \cup {[bids |-> <<<<100, bid>>, <<98, Unit>>>>,
             asks |-> <<<<101, Unit>>>>] : bid \in {Unit, 5 * Unit}}

StickyFetches ==
    {NoFetches} \cup {[NoFetches EXCEPT ![BTCUSDT] = FetchedBook(book)] :
                         book \in StickyBooks}

InitSticky ==
    /\ state = NewState(FALSE, FALSE, DefaultFee, NoReserves, InitialBalances,
                   TickersLimit, NoBooks)
    /\ dryRun = FALSE
    /\ currentTime = 0
    /\ nextOrderId = 1
    /\ candles = [m \in Markets |-> NoCandle]
    /\ lastCall = [op |-> "new"]
    /\ AgentIdle

NextSticky ==
    \/ \E options \in StickyOptions :
          CreateOrder(options, MaxOrdersSticky) /\ UNCHANGED agentVars
    \/ \E books \in StickyFetches :
          UpdateStickyOrders(BTCUSDT, books, MaxIdsSticky) /\ UNCHANGED agentVars

SpecSticky == InitSticky /\ [][NextSticky]_vars

\* ----------------------------------------------------------------------
\* the order book updateStickyOrders works with: the one just fetched, or
\* the stored one when the fetch failed
BookSeen(st, call, market) ==
    IF call.books[market].failed THEN st.orderBooks[market]
    ELSE call.books[market].book

\* the order is the only best quote of its side of the book
SoleBest(order, side) ==
    order.remaining >= side[1][2] /\ order.price = side[1][1]

\* the call has left the sticky order alone if `target` is its price, and
\* else has replaced it by an order of the same side at `target`, asked
\* for with its remaining amount (createOrder keeps the amount asked for in
\* `remaining` and cuts `amount` down to the free balance)
MovedTo(order, target) ==
    IF target = order.price
    THEN /\ order.id \in DOMAIN state'.openOrders
         /\ state'.openOrders[order.id] = order
    ELSE /\ order.id \notin DOMAIN state'.openOrders
         /\ \E id \in DOMAIN state'.openOrders \ DOMAIN state.openOrders :
               LET placed == state'.openOrders[id]
               IN /\ placed.price = target /\ placed.side = order.side
                  /\ placed.remaining = order.remaining
                  /\ placed.sticky = StickyTrue

\* C20 as stated: updateStickyOrders moves a sticky order to a price of the
\* order book: to the second-best level of its side when the order is the
\* only best quote (remaining >= best amount and price = best price), and
\* otherwise to the best level (books with two levels on the side)
C20_TargetFromBook ==
    [][lastCall'.op = "updateStickyOrders" =>
         \A id \in StickyIds(state, lastCall'.market) :
            LET order == state.openOrders[id]
                orderBook == BookSeen(state, lastCall', order.market)
                side == IF order.side = Buy THEN orderBook.bids
                        ELSE orderBook.asks
            IN Len(side) > 1 =>
                 MovedTo(order, IF SoleBest(order, side) THEN side[2][1]
                                ELSE side[1][1])]_vars

\* C20: updateStickyOrders moves a sticky order to the second-best level of
\* its side of the order book when that side has more than one level and the
\* order is the only best quote (remaining >= best amount and price = best
\* price), and otherwise to the bid (Buy) or ask (Sell) of the ticker of the
\* order's market, whatever the best level of the book is
C20_TargetFromTicker ==
    [][lastCall'.op = "updateStickyOrders" =>
         \A id \in StickyIds(state, lastCall'.market) :
            LET order == state.openOrders[id]
                orderBook == BookSeen(state, lastCall', order.market)
                ticker == state.tickers[order.market]
                side == IF order.side = Buy THEN orderBook.bids
                        ELSE orderBook.asks
            IN MovedTo(order, IF Len(side) > 1 /\ SoleBest(order, side)
                              THEN side[2][1]
                              ELSE IF order.side = Buy THEN ticker.bid
                              ELSE ticker.ask)]_vars

\* a sticky Sell placed at 100 has been moved to the ticker's ask of 101
\* although the book's best ask, five units deep, is 100
C20_Witness ==
    /\ lastCall.op = "updateStickyOrders" /\ lastCall.sent = 2
    /\ state.orderBooks[BTCUSDT].asks = <<<<100, 5 * Unit>>, <<102, Unit>>>>
    /\ DOMAIN state.openOrders = {2}
    /\ state.openOrders[2].side = Sell
    /\ state.openOrders[2].price = state.tickers[BTCUSDT].ask
    /\ state.openOrders[2].sticky = StickyTrue

\* ======================================================================
\* SpecJobs: processes that start at once and call createRepeatingJob for
\* the update job
\* ======================================================================
\* the `data` of a job: none, an empty object, or the id of an agent
Undefined == "undefined"
EmptyData == "{}"
JobData == {Undefined, EmptyData, "{id: a}", "{id: b}"}
JobNames == {"updateTradingAgent"}

\* job.data || {}
OrEmpty(data) == IF data = Undefined THEN EmptyData ELSE data

\* the early returns of createRepeatingJob: a job found has no data and none
\* is given, or its data is deep-equal to the data given
AlreadyExists(existingJobs, data) ==
    \E i \in 1..Len(existingJobs) :
        \/ existingJobs[i].data = Undefined /\ data = Undefined
        \/ OrEmpty(existingJobs[i].data) = OrEmpty(data)

\* ModelJob.find({name}) of createRepeatingJob answers
FindJobs(p, name, data) ==
    /\ creators[p].pc = "idle"
    /\ creators' = [creators EXCEPT ![p] =
           [pc |-> "found", name |-> name, data |-> data,
            existing |-> SelectSeq(jobs, LAMBDA j : j.name = name)]]
    /\ UNCHANGED jobs

\* the rest of createRepeatingJob: return, or ModelJob.create
CreateJob(p) ==
    /\ creators[p].pc = "found"
    /\ jobs' = IF AlreadyExists(creators[p].existing, creators[p].data)
               THEN jobs
               ELSE Append(jobs, [name |-> creators[p].name,
                                  data |-> creators[p].data])
    /\ creators' = [creators EXCEPT ![p] =
           [NoCreator EXCEPT !.pc = "done", !.name = creators[p].name,
                             !.data = creators[p].data]]

\* the process calls createRepeatingJob again
CallAgain(p) ==
    /\ creators[p].pc = "done"
    /\ creators' = [creators EXCEPT ![p] = NoCreator]
    /\ UNCHANGED jobs

MirrorIdle ==
    /\ state = NewState(FALSE, FALSE, DefaultFee, NoReserves, InitialBalances,
                   TickersLimit, NoBooks)
    /\ dryRun = FALSE
    /\ currentTime = 0
    /\ nextOrderId = 1
    /\ candles = [m \in Markets |-> NoCandle]
    /\ lastCall = [op |-> "new"]

InitJobs == MirrorIdle /\ AgentIdle

NextJobs ==
    \/ \E p \in Procs, name \in JobNames, data \in JobData :
          FindJobs(p, name, data) /\ UNCHANGED <<mirrorVars, runVars, daemon, tick, strategyVars, managerVars>>
    \/ \E p \in Procs : CreateJob(p) /\ UNCHANGED <<mirrorVars, runVars, daemon, tick, strategyVars, managerVars>>
    \/ \E p \in Procs : CallAgain(p) /\ UNCHANGED <<mirrorVars, runVars, daemon, tick, strategyVars, managerVars>>

SpecJobs == InitJobs /\ [][NextJobs]_vars

\* the jobs of the store with this name and with deep-equal data
JobsLike(name, data) ==
    {i \in 1..Len(jobs) : jobs[i].name = name /\ OrEmpty(jobs[i].data) = OrEmpty(data)}

\* C21: whatever calls of createRepeatingJob have been made, one after the
\* other or by processes starting at once, the job store holds one job, and
\* no more, for a name and data that some finished call has asked for
C21_OneJobPerData ==
    \A p \in Procs :
       creators[p].pc = "done" =>
          Cardinality(JobsLike(creators[p].name, creators[p].data)) = 1

\* ======================================================================
\* SpecShutdown: the process runs the agent's update job and is sent
\* SIGTERM or SIGINT
\* ======================================================================
\* gracefulShutdown up to its await: agenda.stop() clears the polling timer
\* and unlocks the jobs the process holds; it does not wait for a processor
\* that is running
StopAgenda ==
    /\ daemon.pc = "running"
    /\ daemon' = [daemon EXCEPT !.pc = "stopping", !.polling = FALSE]
    /\ job' = [job EXCEPT !.lockedAt = Absent]
    /\ UNCHANGED <<agent, runs, clock, guard>>

\* gracefulShutdown after its await: process.exit(0) ends the process and
\* with it every run, wherever it is
ProcessExit ==
    /\ daemon.pc = "stopping"
    /\ daemon' = [daemon EXCEPT !.pc = "exited", !.exitCode = 0]
    /\ UNCHANGED runVars

InitShutdown ==
    /\ MirrorIdle
    /\ agent = [paused |-> FALSE, peakMarketAmount |-> 1000, maxDrawdown |-> 40]
    /\ job = [lockedAt |-> Absent]
    /\ runs = [slot \in RunSlots |-> IdleRun]
    /\ clock = 0
    /\ guard = NoGuard
    /\ ServiceIdle

\* the steps of the runs, while the process lives
RunSteps ==
    \/ \E slot \in RunSlots : daemon.polling /\ JobTick(slot, FALSE)
    \/ \E slot \in RunSlots : HttpPost(slot, FALSE, FALSE)
    \/ \E slot \in RunSlots, outcome \in {"ok", "failed"} :
          Reconcile(slot, outcome, FALSE)
    \/ \E slot \in RunSlots, total \in Totals : SyncAndCheck(slot, TRUE, total)
    \/ \E slot \in RunSlots : BeforeRun(slot, TRUE)
    \/ \E slot \in RunSlots, orders \in {0, 1} : RunStrategy(slot, orders)
    \/ \E slot \in RunSlots : Save(slot)

NextShutdown ==
    \/ /\ daemon.pc # "exited"
       /\ RunSteps
       /\ UNCHANGED <<mirrorVars, jobVars, daemon, tick, strategyVars, managerVars>>
    \/ StopAgenda /\ UNCHANGED <<mirrorVars, jobVars, tick, strategyVars, managerVars>>
    \/ ProcessExit /\ UNCHANGED <<mirrorVars, jobVars, tick, strategyVars, managerVars>>

SpecShutdown == InitShutdown /\ [][NextShutdown]_vars

\* C22: when the process has exited on SIGTERM or SIGINT, it has exited
\* with code 0, the job runner had stopped polling, and no run of the agent
\* has been cut off in the block that saves the exchange and agent state
C22_NoExitWhileSaving ==
    daemon.pc = "exited" =>
       /\ daemon.exitCode = 0
       /\ ~daemon.polling
       /\ \A slot \in RunSlots : runs[slot].pc # "save"

\* ======================================================================
\* SpecTick: one run of doUpdateTradingAgent over the active markets
\* ======================================================================
\* the run has passed the paused and lockdown checks and starts the
\* reconciliation of every active market at once (Promise.all over map)
TickStart(dry) ==
    /\ tick.pc = "idle"
    /\ tick.count < MaxTicks
    /\ tick' = [NoTick EXCEPT !.pc = "reconcile", !.dry = dry,
                              !.count = tick.count + 1,
                              !.synced = [market \in Markets |-> "running"]]

\* syncOrders(market) && update(market) of one market answers
ReconcileMarket(market, ok) ==
    /\ tick.pc = "reconcile"
    /\ tick.synced[market] = "running"
    /\ tick' = [tick EXCEPT !.synced[market] = IF ok THEN "ok" ELSE "failed"]

\* all markets have answered: one false among them ends the run
AfterReconcile ==
    /\ tick.pc = "reconcile"
    /\ \A market \in Markets : tick.synced[market] # "running"
    /\ tick' = [tick EXCEPT !.pc =
                   IF \A market \in Markets : tick.synced[market] = "ok"
                   THEN "check" ELSE "abortedSync"]

\* the double-sided orders check, then syncTickers and syncBalance, the
\* drawdown guard and beforeRun; after them runForMarket is called for
\* every active market at once
PrepareTick(doubleSided, tickersOk, prepared) ==
    /\ tick.pc = "check"
    /\ tick' =
          IF doubleSided THEN [tick EXCEPT !.pc = "noUpdate"]
          ELSE IF ~tickersOk THEN [tick EXCEPT !.pc = "abortedTickers"]
          ELSE IF ~prepared THEN [tick EXCEPT !.pc = "abortedBeforeRun"]
          ELSE [tick EXCEPT !.pc = "strategy",
                            !.ran = [market \in Markets |-> "running"]]

\* runForMarket(market) resolves or rejects; the calls of the other markets
\* go on after the awaiting run has gone
MarketReturns(market, thrown) ==
    /\ tick.pc \in {"strategy", "failed"}
    /\ tick.ran[market] = "running"
    /\ tick' = [tick EXCEPT !.ran[market] = IF thrown THEN "thrown" ELSE "done"]

\* Promise.all of the runForMarket calls rejects with the first rejection:
\* doUpdateTradingAgent throws and the job fails
StrategyRejects ==
    /\ tick.pc = "strategy"
    /\ \E market \in Markets : tick.ran[market] = "thrown"
    /\ tick' = [tick EXCEPT !.pc = "failed"]

\* Promise.all resolves; the exchange and the agent document are saved
\* unless the run is a dry run
SaveTick ==
    /\ tick.pc = "strategy"
    /\ \A market \in Markets : tick.ran[market] = "done"
    /\ tick' = [tick EXCEPT !.pc = "finished", !.saved = ~tick.dry]

\* the next run of the job
TickAgain ==
    /\ tick.pc \in {"abortedSync", "noUpdate", "abortedTickers",
                    "abortedBeforeRun", "failed", "finished"}
    /\ \A market \in Markets : tick.ran[market] # "running"
    /\ tick' = [NoTick EXCEPT !.count = tick.count]

InitTick == MirrorIdle /\ AgentIdle

NextTick ==
    \/ \E dry \in BOOLEAN :
          TickStart(dry) /\ UNCHANGED <<mirrorVars, runVars, jobVars, daemon, strategyVars, managerVars>>
    \/ \E market \in Markets, ok \in BOOLEAN :
          ReconcileMarket(market, ok)
             /\ UNCHANGED <<mirrorVars, runVars, jobVars, daemon, strategyVars, managerVars>>
    \/ AfterReconcile /\ UNCHANGED <<mirrorVars, runVars, jobVars, daemon, strategyVars, managerVars>>
    \/ \E doubleSided \in BOOLEAN, tickersOk \in BOOLEAN, prepared \in BOOLEAN :
          PrepareTick(doubleSided, tickersOk, prepared)
             /\ UNCHANGED <<mirrorVars, runVars, jobVars, daemon, strategyVars, managerVars>>
    \/ \E market \in Markets, thrown \in BOOLEAN :
          MarketReturns(market, thrown)
             /\ UNCHANGED <<mirrorVars, runVars, jobVars, daemon, strategyVars, managerVars>>
    \/ StrategyRejects /\ UNCHANGED <<mirrorVars, runVars, jobVars, daemon, strategyVars, managerVars>>
    \/ SaveTick /\ UNCHANGED <<mirrorVars, runVars, jobVars, daemon, strategyVars, managerVars>>
    \/ TickAgain /\ UNCHANGED <<mirrorVars, runVars, jobVars, daemon, strategyVars, managerVars>>

SpecTick == InitTick /\ [][NextTick]_vars

\* the run is over: it has returned or thrown and no runForMarket is left
TickOver ==
    /\ tick.pc \in {"abortedSync", "failed", "finished"}
    /\ \A market \in Markets : tick.ran[market] # "running"

\* C23: a run in which no step of the whole agent failed (tickers, balance
\* and beforeRun) and that was not skipped for double-sided orders, has at
\* its end run the strategy for every market whose reconciliation
\* succeeded and has saved the exchange and agent state (unless dry),
\* whatever failed or threw for single markets
C23_MarketErrorsIsolated ==
    TickOver =>
       /\ \A market \in Markets :
             tick.synced[market] = "ok" => tick.ran[market] \in {"done", "thrown"}
       /\ tick.saved = ~tick.dry

\* ======================================================================
\* SpecReserve: a mirror with configured reserves and orders of both types
\* ======================================================================
MaxOrdersReserve == 3

ReserveOptions ==
    {Options(BTCUSDT, type, side, Unit, 100, 0, Absent, Absent, FALSE) :
        type \in {Limit, Market}, side \in {Buy, Sell}}

\* the reserves an operator has configured with setReserve
ReserveChoices ==
    {[NoReserves EXCEPT !["USDT"] = usdt * Unit, !["BTC"] = btc * Unit] :
        usdt \in {0, 150}, btc \in {0, 1}}

InitReserve ==
    /\ \E simulation \in BOOLEAN, reserves \in ReserveChoices :
         state = NewState(simulation, FALSE, DefaultFee, reserves,
                     InitialBalances, TickersLimit, NoBooks)
    /\ dryRun = FALSE
    /\ currentTime = 0
    /\ nextOrderId = 1
    /\ candles = [m \in Markets |-> NoCandle]
    /\ lastCall = [op |-> "new"]
    /\ AgentIdle

NextReserve ==
    \E options \in ReserveOptions :
       CreateOrder(options, MaxOrdersReserve) /\ UNCHANGED agentVars

SpecReserve == InitReserve /\ [][NextReserve]_vars

\* what the order takes from the free balance of the currency it spends
Spends(options, st) ==
    IF options.side = Sell THEN options.amount
    ELSE IF options.type = Limit THEN options.amount * options.price
    ELSE options.amount * st.tickers[options.market].ask

SpentCurrency(options) ==
    IF options.side = Buy THEN quoteCurrency(options.market)
    ELSE baseCurrency(options.market)

\* C24: no createOrder call (Limit or Market, Buy or Sell) takes the raw
\* free balance of a currency below min(reserve, free balance before the
\* call), hence no sequence of calls does; and a call whose order would
\* take more than free - reserve sends nothing to the remote
C24_ReserveKept ==
    [][lastCall'.op = "createOrder" =>
          /\ \A c \in Currencies :
                state'.balances[c].free
                   >= Min(state.reserves[c], state.balances[c].free)
          /\ LET options == lastCall'.options
                 c == SpentCurrency(options)
             IN Spends(options, state)
                   > state.balances[c].free - state.reserves[c]
                => lastCall'.sent = 0]_vars

\* ======================================================================
\* SpecQuote: computeQuote and computeSpread of the market making model
\* ======================================================================
\* Prices, distances and the logarithm, power and square root terms are in
\* thousandths; sigma, mu, gamma, A, k and inventory are whole numbers.
Milli == 1000

\* the number NaN and the value undefined of a parameter
NaN == 0 - 2000000000
Missing == 0 - 2000000001

\* JavaScript's truthiness of a number or undefined
Truthy(x) == x \notin {0, NaN, Missing}

IsInfinite(x) == x = Infinity \/ x = 0 - Infinity

\* a + b, a - b and a * b of two numbers, the product of two numbers in
\* thousandths being in thousandths
AddJS(a, b) ==
    IF a = NaN \/ b = NaN THEN NaN
    ELSE IF IsInfinite(a) /\ IsInfinite(b) THEN (IF a = b THEN a ELSE NaN)
    ELSE IF IsInfinite(a) THEN a
    ELSE IF IsInfinite(b) THEN b
    ELSE a + b

NegJS(a) == IF a = NaN THEN NaN ELSE 0 - a

SubJS(a, b) == AddJS(a, NegJS(b))

MulJS(a, b) ==
    IF a = NaN \/ b = NaN THEN NaN
    ELSE IF IsInfinite(a) \/ IsInfinite(b)
    THEN (IF a = 0 \/ b = 0 THEN NaN
          ELSE IF (a > 0) = (b > 0) THEN Infinity ELSE 0 - Infinity)
    ELSE (a * b) \div Milli

\* Math.min and Math.max of two numbers
MinJS(a, b) == IF a = NaN \/ b = NaN THEN NaN ELSE Min(a, b)
MaxJS(a, b) == IF a = NaN \/ b = NaN THEN NaN ELSE Max(a, b)

\* a > b and a < b: false when either is NaN
GreaterJS(a, b) == a # NaN /\ b # NaN /\ a > b
LessJS(a, b) == a # NaN /\ b # NaN /\ a < b

\* Math.log(1 + gamma / k), for the gammas and ks of the model
LogTerm(gamma, k) ==
    CASE gamma = 1 /\ k = 1 -> 693
      [] gamma = 1 /\ k = 2 -> 405
      [] gamma = 2 /\ k = 1 -> 1099
      [] gamma = 2 /\ k = 2 -> 693
      [] gamma = 0 - 1 /\ k = 1 -> 0 - Infinity
      [] gamma = 0 - 1 /\ k = 2 -> 0 - 693
      [] gamma = 0 - 2 /\ k = 1 -> NaN
      [] gamma = 0 - 2 /\ k = 2 -> 0 - Infinity

\* Math.pow(1 + gamma / k, 1 + k / gamma), for the gammas and ks of the model
PowTerm(gamma, k) ==
    CASE gamma = 1 /\ k = 1 -> 4000
      [] gamma = 1 /\ k = 2 -> 3375
      [] gamma = 2 /\ k = 1 -> 5196
      [] gamma = 2 /\ k = 2 -> 4000
      [] gamma = 0 - 1 /\ k = 1 -> 1000
      [] gamma = 0 - 1 /\ k = 2 -> 2000
      [] gamma = 0 - 2 /\ k = 1 -> NaN
      [] gamma = 0 - 2 /\ k = 2 -> 1000

\* the largest r in lo..hi with r * r <= n
RECURSIVE RootBetween(_, _, _)
RootBetween(lo, hi, n) ==
    IF lo >= hi THEN lo
    ELSE LET mid == (lo + hi + 1) \div 2
         IN IF mid * mid <= n THEN RootBetween(mid, hi, n)
            ELSE RootBetween(lo, mid - 1, n)

\* Math.sqrt of a number in thousandths that is not negative
SqrtJS(a) == IF a = NaN THEN NaN ELSE RootBetween(0, 30000, a * Milli)

\* computeTerms(sigma, gamma, k, A)
computeTerms(sigma, gamma, k, A) ==
    LET pow == PowTerm(gamma, k)
        risk == Max(0, (sigma * sigma * gamma * Milli) \div (2 * k * A))
        log == LogTerm(gamma, k)
    IN [sqrtTerm |-> SqrtJS(MulJS(risk, pow)),
        lnTerm |-> IF log = NaN \/ IsInfinite(log)
                   THEN MulJS(log, gamma)
                   ELSE log \div gamma]

\* the sanity check of computeQuote and computeSpread
Sane(parameters) ==
    /\ Truthy(parameters.sigma) /\ Truthy(parameters.gamma)
    /\ Truthy(parameters.buy.A) /\ Truthy(parameters.buy.k)
    /\ Truthy(parameters.sell.A) /\ Truthy(parameters.sell.k)

\* mu / (gamma * sigma * sigma), the share of the drift in the multipliers
Drift(parameters) ==
    IF parameters.includeDrift
    THEN (parameters.mu * Milli)
            \div (parameters.gamma * parameters.sigma * parameters.sigma)
    ELSE 0

\* the optimal distances of the bid and of the ask from the mid price
bidPriceDistance(parameters) ==
    LET bid == computeTerms(parameters.sigma, parameters.gamma,
                            parameters.buy.k, parameters.buy.A)
        bidMultiplier == ((2 * parameters.inventory + 1) * Milli) \div 2
                            - Drift(parameters)
    IN AddJS(bid.lnTerm, MulJS(bidMultiplier, bid.sqrtTerm))

askPriceDistance(parameters) ==
    LET ask == computeTerms(parameters.sigma, parameters.gamma,
                            parameters.sell.k, parameters.sell.A)
        askMultiplier == ((0 - (2 * parameters.inventory - 1)) * Milli) \div 2
                            + Drift(parameters)
    IN AddJS(ask.lnTerm, MulJS(askMultiplier, ask.sqrtTerm))

computeSpread(parameters) ==
    IF ~Sane(parameters) THEN 0
    ELSE AddJS(bidPriceDistance(parameters), askPriceDistance(parameters))

\* a computeQuote without the safeguard against crossing the mid price
computeQuoteUnguarded(parameters) ==
    IF ~Sane(parameters) THEN [bid |-> 0, ask |-> 0]
    ELSE [bid |-> SubJS(parameters.midPrice, bidPriceDistance(parameters)),
          ask |-> AddJS(parameters.midPrice, askPriceDistance(parameters))]

computeQuote(parameters) ==
    IF ~Sane(parameters) THEN [bid |-> 0, ask |-> 0]
    ELSE [bid |-> MinJS(parameters.midPrice,
                        SubJS(parameters.midPrice, bidPriceDistance(parameters))),
          ask |-> MaxJS(parameters.midPrice,
                        AddJS(parameters.midPrice, askPriceDistance(parameters)))]

\* the caller computes the quote and the spread of its parameters
ComputeQuote ==
    /\ ~lastQuote.called
    /\ lastQuote' = [called |-> TRUE, parameters |-> lastQuote.parameters,
                     result |-> computeQuote(lastQuote.parameters),
                     spread |-> computeSpread(lastQuote.parameters)]

\* IMarketDynamicParameters and IMarketModelParameters of the model
BuyDynamics == {[A |-> a, k |-> k] : a \in {Missing, 0, 1, 2}, k \in {Missing, 0, 1, 2}}
SellDynamics ==
    {[A |-> 1, k |-> 1], [A |-> 2, k |-> 2], [A |-> 0, k |-> 1],
     [A |-> 1, k |-> Missing]}

QuoteParameters ==
    [sigma : {Missing, 0, 1, 2}, mu : {0 - 1, 1},
     gamma : {Missing, 0, 1, 2, 0 - 1, 0 - 2},
     buy : BuyDynamics, sell : SellDynamics,
     midPrice : {100 * Milli, NaN}, inventory : {0 - 3, 0, 3},
     includeDrift : BOOLEAN]

\* a caller holds the parameters of a market
InitQuote ==
    /\ MirrorIdle
    /\ RunsIdle
    /\ JobsIdle
    /\ daemon = DaemonUp
    /\ tick = NoTick
    /\ marketState = NoMarketState
    /\ universe = NoUniverse
    /\ ManagerIdle
    /\ lastQuote \in {[called |-> FALSE, parameters |-> parameters] :
                         parameters \in QuoteParameters}

NextQuote ==
    ComputeQuote /\ UNCHANGED <<mirrorVars, runVars, jobVars, daemon, tick, marketState, universe, managerVars>>

SpecQuote == InitQuote /\ [][NextQuote]_vars

\* C25: for parameters that pass the sanity check computeQuote returns
\* neither a bid above the mid price nor an ask below it; when sigma, gamma
\* or one of the A and k terms is zero or undefined it returns bid 0 and
\* ask 0, and computeSpread returns 0
C25_QuoteNeverCrosses ==
    lastQuote.called =>
       LET parameters == lastQuote.parameters
       IN IF Sane(parameters)
          THEN /\ ~GreaterJS(lastQuote.result.bid, parameters.midPrice)
               /\ ~LessJS(lastQuote.result.ask, parameters.midPrice)
          ELSE /\ lastQuote.result = [bid |-> 0, ask |-> 0]
               /\ lastQuote.spread = 0

\* the optimal bid lies above the mid price and the quote is held at it
C25_Witness ==
    /\ lastQuote.called
    /\ Sane(lastQuote.parameters)
    /\ LessJS(bidPriceDistance(lastQuote.parameters), 0)
    /\ lastQuote.result.bid = lastQuote.parameters.midPrice
    /\ lastQuote.result.ask > lastQuote.parameters.midPrice

\* ======================================================================
\* SpecEntry: the entry step of the strategy on a simulated mirror
\* ======================================================================
MaxOrdersEntry == 3

\* defaultOptions of the entry step; trend and price level in hundredths
defaultOptions ==
    [minimumTrend |-> 10, maximumPriceLevel |-> 60, minDealAmount |-> Unit,
     minimumNotionalValue |-> 0]

\* entryPossible(input); `signals` is the outcome of its checks of the day
\* and hour candles and of the volume balance of the fetched trades
entryPossible(input) ==
    /\ ~(input.trend < defaultOptions.minimumTrend)
    /\ ~(input.priceLevel > defaultOptions.maximumPriceLevel)
    /\ input.signals

\* the callbacks of the input: cancelAllOrders() cancels the market's open
\* orders, buy(amount) places a sticky Limit Buy at the ticker's bid
cancelAllOrdersOf(w, market) == cancelAllOrders(w, market, NoSide)
buy(w, market, amount) ==
    createOrder(w, Options(market, Limit, Buy, amount, Absent, 0, Absent,
                           Absent, TRUE))
convertToQuote(input, amount) == amount * input.ticker.bid
convertToBase(input, amount) == amount \div input.ticker.bid

\* the outcome of the entry step: the mirror, the market's state as the
\* callbacks setAgentState and setEntryData have left it, the value
\* returned and the id of the buy order placed (0 when none)
EntryOutcome(w, ms, result, placed) ==
    [w |-> w, ms |-> ms, result |-> result, placed |-> placed]

\* an entry step that does not look for a sticky buy order in place
runEntryStrategyUngated(w, ms, input) ==
    LET wanted == Max(0, input.targetBalance - input.balance.total)
        amount == IF convertToQuote(input, wanted) > input.quoteBalance.free
                  THEN convertToBase(input, input.quoteBalance.free)
                  ELSE wanted
    IN
    IF input.balance.total >= defaultOptions.minDealAmount
    THEN EntryOutcome(w, ms, FALSE, 0)
    ELSE IF input.targetBalance > 0 /\ input.canEnterMoreMarkets
               /\ entryPossible(input)
    THEN IF amount < Max(defaultOptions.minDealAmount,
                         defaultOptions.minimumNotionalValue \div input.ticker.bid)
         THEN EntryOutcome(w, [ms EXCEPT !.agentState = Idle], FALSE, 0)
         ELSE LET w1 == buy(cancelAllOrdersOf(w, input.market), input.market, amount)
              IN EntryOutcome(w1,
                    [ms EXCEPT !.agentState = TryingToEnter,
                               !.entryPrice = Absent, !.entryTimestamp = Absent],
                    TRUE, w1.id)
    ELSE EntryOutcome(w, [ms EXCEPT !.agentState = Idle], FALSE, 0)

\* runEntryStrategy(input)
runEntryStrategy(w, ms, input) ==
    LET stickyBuyOrder ==
            Cardinality({order \in input.buyOrders : order.sticky = StickyTrue})
        wanted == Max(0, input.targetBalance - input.balance.total)
        amount == IF convertToQuote(input, wanted) > input.quoteBalance.free
                  THEN convertToBase(input, input.quoteBalance.free)
                  ELSE wanted
    IN
    IF stickyBuyOrder # 0
    THEN IF ~entryPossible(input)
         THEN EntryOutcome(cancelAllOrdersOf(w, input.market),
                           [ms EXCEPT !.agentState = Idle], FALSE, 0)
         ELSE EntryOutcome(w, [ms EXCEPT !.agentState = TryingToEnter], TRUE, 0)
    ELSE IF input.balance.total >= defaultOptions.minDealAmount
    THEN EntryOutcome(w, ms, FALSE, 0)
    ELSE IF input.targetBalance > 0 /\ input.canEnterMoreMarkets
               /\ entryPossible(input)
    THEN IF amount < Max(defaultOptions.minDealAmount,
                         defaultOptions.minimumNotionalValue \div input.ticker.bid)
         THEN EntryOutcome(w, [ms EXCEPT !.agentState = Idle], FALSE, 0)
         ELSE LET w1 == buy(cancelAllOrdersOf(w, input.market), input.market, amount)
              IN EntryOutcome(w1,
                    [ms EXCEPT !.agentState = TryingToEnter,
                               !.entryPrice = Absent, !.entryTimestamp = Absent],
                    TRUE, w1.id)
    ELSE EntryOutcome(w, [ms EXCEPT !.agentState = Idle], FALSE, 0)

\* the open buy orders of the market, as a caller reads them off the mirror
OpenBuyOrders(st, market) ==
    {st.openOrders[id] : id \in {i \in DOMAIN st.openOrders :
        st.openOrders[i].market = market /\ st.openOrders[i].side = Buy}}

\* the input a caller builds from the mirror for the market
EntryInput(st, market, trend, priceLevel, signals, targetBalance, canEnter) ==
    [market |-> market, ticker |-> st.tickers[market], trend |-> trend,
     priceLevel |-> priceLevel, signals |-> signals,
     buyOrders |-> OpenBuyOrders(st, market),
     balance |-> getBalance(st, baseCurrency(market)),
     quoteBalance |-> getBalance(st, quoteCurrency(market)),
     targetBalance |-> targetBalance, canEnterMoreMarkets |-> canEnter]

\* a caller runs the entry step on an input
RunEntryStrategy(input, maxOrders) ==
    /\ nextOrderId <= maxOrders
    /\ LET out == runEntryStrategy(Here(NoFetches, {}, FALSE), marketState, input)
       IN /\ Return(out.w, [op |-> "runEntryStrategy", input |-> input,
                            result |-> out.result, placed |-> out.placed])
          /\ marketState' = out.ms
    /\ UNCHANGED <<dryRun, currentTime, candles>>

\* the inputs of a call: built from the mirror as it is now, or the input
\* of the call before
EntryInputs ==
    {EntryInput(state, BTCUSDT, trend, priceLevel, signals, targetBalance, canEnter) :
        trend \in {5, 20}, priceLevel \in {50}, signals \in BOOLEAN,
        targetBalance \in {0, Unit}, canEnter \in BOOLEAN}
      \cup (IF lastCall.op = "runEntryStrategy" THEN {lastCall.input} ELSE {})

InitEntry ==
    /\ state = NewState(TRUE, FALSE, DefaultFee, NoReserves,
                   [InitialBalances EXCEPT !["BTC"].free = 0],
                   TickersLimit, NoBooks)
    /\ dryRun = FALSE
    /\ currentTime = 0
    /\ nextOrderId = 1
    /\ candles = [m \in Markets |-> NoCandle]
    /\ lastCall = [op |-> "new"]
    /\ AgentIdle

NextEntry ==
    \/ \E input \in EntryInputs :
          /\ RunEntryStrategy(input, MaxOrdersEntry)
          /\ UNCHANGED <<runVars, jobVars, daemon, tick, lastQuote, universe, managerVars>>
    \/ /\ CancelAllOrders(BTCUSDT, NoSide)
       /\ UNCHANGED <<runVars, jobVars, daemon, tick, strategyVars, managerVars>>

SpecEntry == InitEntry /\ [][NextEntry]_vars

\* the call before was the entry step, found entry possible and placed a
\* sticky Buy that is open
PlacedStickyBuy ==
    /\ lastCall.op = "runEntryStrategy"
    /\ entryPossible(lastCall.input)
    /\ lastCall.placed # 0
    /\ lastCall.placed \in DOMAIN state.openOrders
    /\ state.openOrders[lastCall.placed].sticky = StickyTrue

\* this call of the entry step is gated: it returns true, leaves
\* TryingToEnter and places no order, the first buy staying as it is
Gated ==
    /\ lastCall'.result
    /\ marketState'.agentState = TryingToEnter
    /\ lastCall'.placed = 0
    /\ state'.openOrders = state.openOrders

\* C26: when the entry step has placed a sticky Buy with entry possible, a
\* call of the entry step that follows it with the same input returns true,
\* leaves agentState = TryingToEnter and places no second buy order
C26_SameInputGated ==
    [][(/\ PlacedStickyBuy
        /\ lastCall'.op = "runEntryStrategy"
        /\ lastCall'.input = lastCall.input) => Gated]_vars

\* C26, amended: the same holds for a call that follows with an input read
\* off the exchange after the first call, so that its buyOrders hold the
\* sticky Buy, and for which entry is still possible
C26_RereadInputGated ==
    [][(/\ PlacedStickyBuy
        /\ lastCall'.op = "runEntryStrategy"
        /\ lastCall'.input.buyOrders = OpenBuyOrders(state, BTCUSDT)
        /\ entryPossible(lastCall'.input)) => Gated]_vars

\* two calls of the entry step in a row, the second gated by the sticky Buy
\* of the first
C26_Witness ==
    /\ lastCall.op = "runEntryStrategy"
    /\ lastCall.result
    /\ lastCall.placed = 0
    /\ marketState.agentState = TryingToEnter
    /\ \E order \in lastCall.input.buyOrders :
          order.sticky = StickyTrue /\ order.id \in DOMAIN state.openOrders

\* ======================================================================
\* SpecEntrySteps: the entry step on a simulated mirror whose base balance
\* grows by deposits, each call with an input read off the mirror
\* ======================================================================
MaxOrdersEntrySteps == 3
MaxDepositsEntry == 1

NextEntrySteps ==
    \/ \E trend \in {5, 20}, signals \in BOOLEAN, targetBalance \in {0, 2 * Unit},
          canEnter \in BOOLEAN :
          /\ RunEntryStrategy(EntryInput(state, BTCUSDT, trend, 50, signals,
                                         targetBalance, canEnter),
                              MaxOrdersEntrySteps)
          /\ UNCHANGED <<runVars, jobVars, daemon, tick, lastQuote, universe, managerVars>>
    \/ \E options \in {Options(BTCUSDT, Limit, Buy, Unit, 90, 0, Absent, Absent, FALSE)} :
          /\ CreateOrder(options, MaxOrdersEntrySteps)
          /\ UNCHANGED <<runVars, jobVars, daemon, tick, strategyVars, managerVars>>
    \/ /\ Deposit("BTC", Unit, MaxDepositsEntry)
       /\ UNCHANGED <<runVars, jobVars, daemon, tick, strategyVars, managerVars>>

SpecEntrySteps == InitEntry /\ [][NextEntrySteps]_vars

\* the input of the call holds a sticky buy order
StickyBuyInPlace(input) ==
    \E order \in input.buyOrders : order.sticky = StickyTrue

\* the call has cancelled every open order of the market and left the
\* market Idle, or has left the orders alone and the state TryingToEnter
EntryRechecked ==
    IF ~entryPossible(lastCall'.input)
    THEN /\ OpenIds(state', BTCUSDT) = {}
         /\ marketState'.agentState = Idle
    ELSE /\ state'.openOrders = state.openOrders
         /\ marketState'.agentState = TryingToEnter

\* the call has returned false and has placed and cancelled nothing
NoEntryAction ==
    /\ ~lastCall'.result
    /\ lastCall'.placed = 0
    /\ state'.openOrders = state.openOrders
    /\ state'.cancelledOrders = state.cancelledOrders

\* the call has placed one order, a sticky Buy at the bid, and no order that
\* was open in the market before it is open after it
NewEntry ==
    /\ OpenIds(state', BTCUSDT) = {lastCall'.placed}
    /\ lastCall'.placed \notin DOMAIN state.openOrders
    /\ LET order == state'.openOrders[lastCall'.placed]
       IN /\ order.sticky = StickyTrue
          /\ order.side = Buy
          /\ order.type = Limit
          /\ order.price = lastCall'.input.ticker.bid
    /\ marketState'.agentState = TryingToEnter

\* C31 as stated: a call of the entry step whose input holds a sticky buy
\* cancels all orders of the market and turns Idle when entry is not
\* possible and else stays TryingToEnter; a call with baseBalance.total >=
\* minDealAmount returns false and places and cancels no order; a call that
\* enters the market leaves one sticky Buy at the bid as the market's only
\* open order
C31_EntryTransitions ==
    [][lastCall'.op = "runEntryStrategy" =>
          /\ StickyBuyInPlace(lastCall'.input) => EntryRechecked
          /\ lastCall'.input.balance.total >= defaultOptions.minDealAmount
                => NoEntryAction
          /\ lastCall'.placed # 0 => NewEntry]_vars

\* C31 amended: the same, the second part for calls whose input holds no
\* sticky buy order; a call whose input holds one returns true when entry
\* is possible and false when not, whatever the base balance
C31_EntryTransitionsInOrder ==
    [][lastCall'.op = "runEntryStrategy" =>
          /\ StickyBuyInPlace(lastCall'.input) =>
                /\ EntryRechecked
                /\ lastCall'.result = entryPossible(lastCall'.input)
                /\ lastCall'.placed = 0
          /\ (/\ ~StickyBuyInPlace(lastCall'.input)
              /\ lastCall'.input.balance.total >= defaultOptions.minDealAmount)
                => NoEntryAction
          /\ lastCall'.placed # 0 => NewEntry]_vars

\* a call whose input held a sticky buy and a base balance of minDealAmount
\* or more has found entry impossible and has cancelled the buy
C31_Witness ==
    /\ lastCall.op = "runEntryStrategy"
    /\ StickyBuyInPlace(lastCall.input)
    /\ lastCall.input.balance.total >= defaultOptions.minDealAmount
    /\ ~entryPossible(lastCall.input)
    /\ \E order \in lastCall.input.buyOrders :
          order.id \in DOMAIN state.cancelledOrders
    /\ marketState.agentState = Idle

\* ======================================================================
\* SpecExit: the exit step of the strategy on a simulated mirror
\* ======================================================================
MaxOrdersExit == 3

\* defaultOptions of the exit step
exitDefaultOptions == [minDealAmount |-> Unit, minimumNotionalValue |-> 0]

\* Exchange.getLastClosedOrder(market, side): the closed order with the
\* latest timestamp, Absent when there is none
getLastClosedOrder(st, market, side) ==
    LET ids == {id \in DOMAIN st.closedOrders :
                   /\ st.closedOrders[id].market = market
                   /\ st.closedOrders[id].side = side}
    IN IF ids = {} THEN Absent
       ELSE st.closedOrders[
               CHOOSE id \in ids :
                   \A other \in ids :
                      \/ st.closedOrders[other].timestamp
                            < st.closedOrders[id].timestamp
                      \/ /\ st.closedOrders[other].timestamp
                               = st.closedOrders[id].timestamp
                         /\ other >= id]

\* the callback sell(amount) of the exit step places a sticky Limit Sell
sellSticky(w, market, amount) ==
    createOrder(w, Options(market, Limit, Sell, amount, Absent, 0, Absent,
                           Absent, TRUE))

\* the entry data of the market as the exit step leaves them: missing ones
\* are taken from the last closed buy order, or from the ticker and clock
BackfilledEntry(w, ms, input) ==
    LET lastClosedBuyOrder == getLastClosedOrder(w.st, input.market, Buy)
        average == (input.ticker.bid + input.ticker.ask) \div 2
    IN IF ms.entryPrice \notin {Absent, 0} /\ ms.entryTimestamp \notin {Absent, 0}
       THEN ms
       ELSE IF lastClosedBuyOrder = Absent
       THEN [ms EXCEPT !.entryPrice = average, !.entryTimestamp = w.now]
       ELSE [ms EXCEPT !.entryPrice = lastClosedBuyOrder.price,
                       !.entryTimestamp =
                           IF lastClosedBuyOrder.timestampClosed \in {Absent, 0}
                           THEN w.now ELSE lastClosedBuyOrder.timestampClosed]

\* an exit step that sells the free balance its input was built with
runExitStrategyStaleBalance(w, ms, input) ==
    LET ms1 == BackfilledEntry(w, ms, input)
        stickySellOrder ==
            Cardinality({order \in input.sellOrders : order.sticky = StickyTrue})
    IN
    IF getBalance(w.st, baseCurrency(input.market)).total
          <= Max(exitDefaultOptions.minDealAmount,
                 exitDefaultOptions.minimumNotionalValue \div input.ticker.ask)
    THEN EntryOutcome(w, ms, TRUE, 0)
    ELSE IF stickySellOrder # 0
    THEN IF ~input.exitNeeded /\ input.canTrade
         THEN EntryOutcome(cancelAllOrdersOf(w, input.market),
                           [ms1 EXCEPT !.agentState = HasPosition], FALSE, 0)
         ELSE EntryOutcome(w, [ms1 EXCEPT !.agentState = TryingToLeave], TRUE, 0)
    ELSE IF input.exitNeeded
    THEN LET w2 == CHOOSE out \in
                      {sellSticky(v, input.market, input.balance.free) :
                          v \in {cancelAllOrdersOf(w, input.market)}} : TRUE
         IN EntryOutcome(w2, [ms1 EXCEPT !.agentState = TryingToLeave],
                         TRUE, w2.id)
    ELSE EntryOutcome(w, [ms1 EXCEPT !.agentState = HasPosition], FALSE, 0)

\* runExitStrategy(input); `exitNeeded` is the outcome of
\* takeProfitExitPossible(input) || returnBasedExitPossible(input)
runExitStrategy(w, ms, input) ==
    LET ms1 == BackfilledEntry(w, ms, input)
        stickySellOrder ==
            Cardinality({order \in input.sellOrders : order.sticky = StickyTrue})
    IN
    IF getBalance(w.st, baseCurrency(input.market)).total
          <= Max(exitDefaultOptions.minDealAmount,
                 exitDefaultOptions.minimumNotionalValue \div input.ticker.ask)
    THEN EntryOutcome(w, ms, TRUE, 0)
    ELSE IF stickySellOrder # 0
    THEN IF ~input.exitNeeded /\ input.canTrade
         THEN EntryOutcome(cancelAllOrdersOf(w, input.market),
                           [ms1 EXCEPT !.agentState = HasPosition], FALSE, 0)
         ELSE EntryOutcome(w, [ms1 EXCEPT !.agentState = TryingToLeave], TRUE, 0)
    ELSE IF input.exitNeeded
    THEN LET w2 == CHOOSE out \in
                      {sellSticky(v, input.market,
                            getBalance(v.st, baseCurrency(input.market)).free) :
                          v \in {cancelAllOrdersOf(w, input.market)}} : TRUE
         IN EntryOutcome(w2, [ms1 EXCEPT !.agentState = TryingToLeave],
                         TRUE, w2.id)
    ELSE EntryOutcome(w, [ms1 EXCEPT !.agentState = HasPosition], FALSE, 0)

\* the input a caller builds from the mirror for the market
ExitInput(st, market, canTrade, exitNeeded) ==
    [market |-> market, ticker |-> st.tickers[market], canTrade |-> canTrade,
     exitNeeded |-> exitNeeded,
     sellOrders |-> {st.openOrders[id] : id \in {i \in DOMAIN st.openOrders :
                        /\ st.openOrders[i].market = market
                        /\ st.openOrders[i].side = Sell}},
     balance |-> getBalance(st, baseCurrency(market))]

\* a caller runs the exit step on an input
RunExitStrategy(input, maxOrders) ==
    /\ nextOrderId <= maxOrders
    /\ \E out \in {runExitStrategy(Here(NoFetches, {}, FALSE), marketState, input)} :
          /\ Return(out.w, [op |-> "runExitStrategy", input |-> input,
                            result |-> out.result, placed |-> out.placed])
          /\ marketState' = out.ms
    /\ UNCHANGED <<dryRun, currentTime, candles>>

InitExit ==
    /\ \E base \in {Unit, 3 * Unit} :
         state = NewState(TRUE, FALSE, DefaultFee, NoReserves,
                     [InitialBalances EXCEPT !["BTC"].free = base],
                     TickersLimit, NoBooks)
    /\ dryRun = FALSE
    /\ currentTime = 0
    /\ nextOrderId = 1
    /\ candles = [m \in Markets |-> NoCandle]
    /\ lastCall = [op |-> "new"]
    /\ RunsIdle
    /\ JobsIdle
    /\ daemon = DaemonUp
    /\ tick = NoTick
    /\ lastQuote = NoQuote
    /\ marketState = [NoMarketState EXCEPT !.agentState = HasPosition]
    /\ universe = NoUniverse
    /\ ManagerIdle

NextExit ==
    \/ \E canTrade \in BOOLEAN, exitNeeded \in BOOLEAN :
          /\ RunExitStrategy(ExitInput(state, BTCUSDT, canTrade, exitNeeded),
                             MaxOrdersExit)
          /\ UNCHANGED <<runVars, jobVars, daemon, tick, lastQuote, universe, managerVars>>
    \/ \E options \in {Options(BTCUSDT, Limit, side, Unit, 100, 0, Absent, Absent, FALSE) :
                          side \in {Buy, Sell}} :
          /\ CreateOrder(options, MaxOrdersExit)
          /\ UNCHANGED <<runVars, jobVars, daemon, tick, strategyVars, managerVars>>
    \/ /\ Withdraw("BTC", Unit)
       /\ UNCHANGED <<runVars, jobVars, daemon, tick, strategyVars, managerVars>>

SpecExit == InitExit /\ [][NextExit]_vars

\* the base balance lets the exit step run
ExitRuns(st, input) ==
    getBalance(st, baseCurrency(input.market)).total
       > Max(exitDefaultOptions.minDealAmount,
             exitDefaultOptions.minimumNotionalValue \div input.ticker.ask)

\* the input of the call holds a sticky sell order
StickySellInPlace(input) ==
    \E order \in input.sellOrders : order.sticky = StickyTrue

\* C32: a call of the exit step with a base balance of at most
\* max(minDealAmount, minimumNotional/ask) changes nothing; else, with a
\* sticky sell in its input, it cancels all orders of the market and sets
\* HasPosition when no exit is needed and canTrade holds, and leaves the
\* orders alone and sets TryingToLeave otherwise; else, on an exit trigger,
\* it cancels all orders and leaves one sticky Sell for the free base
\* balance as the market's only open order, and sets TryingToLeave
C32_ExitTransitions ==
    [][lastCall'.op = "runExitStrategy" =>
          LET input == lastCall'.input
          IN
          IF ~ExitRuns(state, input)
          THEN /\ state' = state
               /\ marketState' = marketState
               /\ lastCall'.placed = 0
          ELSE IF StickySellInPlace(input)
          THEN IF ~input.exitNeeded /\ input.canTrade
               THEN /\ OpenIds(state', BTCUSDT) = {}
                    /\ marketState'.agentState = HasPosition
               ELSE /\ state'.openOrders = state.openOrders
                    /\ marketState'.agentState = TryingToLeave
          ELSE input.exitNeeded =>
               /\ OpenIds(state', BTCUSDT) = {lastCall'.placed}
               /\ lastCall'.placed \notin DOMAIN state.openOrders
               /\ LET order == state'.openOrders[lastCall'.placed]
                  IN /\ order.sticky = StickyTrue
                     /\ order.side = Sell
                     /\ order.amount =
                           getBalance(cancelAllOrdersOf(Here(NoFetches, {}, FALSE),
                                                        BTCUSDT).st, "BTC").free
                     /\ order.amount = state'.balances["BTC"].used
                     /\ state'.balances["BTC"].free = 0
               /\ marketState'.agentState = TryingToLeave]_vars

\* an exit trigger has replaced an open sell order of the market by a sticky
\* Sell, and a later call has found the sticky Sell in place
C32_Witness ==
    /\ lastCall.op = "runExitStrategy"
    /\ StickySellInPlace(lastCall.input)
    /\ marketState.agentState = TryingToLeave
    /\ lastCall.result
    /\ \E id \in DOMAIN state.cancelledOrders :
          state.cancelledOrders[id].side = Sell
    /\ \E id \in DOMAIN state.openOrders :
          /\ state.openOrders[id].sticky = StickyTrue
          /\ state.openOrders[id].amount = 3 * Unit

\* ======================================================================
\* SpecManager: concurrent calls of CcxtExchangeManager.getExchange
\* ======================================================================
\* getExchange(doc) up to its await: a cached instance is returned; else
\* CcxtExchange.create(doc) builds an instance and awaits loadMarkets
GetExchange(p, id) ==
    /\ callers[p].pc = "idle"
    /\ IF exchanges[id] # NoInstance
       THEN /\ callers' = [callers EXCEPT ![p] =
                   [pc |-> "returned", id |-> id, instance |-> exchanges[id]]]
            /\ UNCHANGED <<exchanges, created>>
       ELSE /\ Len(created) < MaxInstances
            /\ created' = Append(created, [id |-> id, failed |-> FALSE])
            /\ callers' = [callers EXCEPT ![p] =
                   [pc |-> "loading", id |-> id, instance |-> Len(created) + 1]]
            /\ UNCHANGED exchanges

\* loadMarkets answers: create resolves, the instance is written into the
\* cache and the cache entry is returned; or create rejects
MarketsLoaded(p, ok) ==
    /\ callers[p].pc = "loading"
    /\ IF ok
       THEN /\ exchanges' = [exchanges EXCEPT ![callers[p].id] = callers[p].instance]
            /\ callers' = [callers EXCEPT ![p].pc = "returned"]
            /\ UNCHANGED created
       ELSE /\ callers' = [callers EXCEPT ![p].pc = "thrown",
                                          ![p].instance = NoInstance]
            /\ created' = [created EXCEPT ![callers[p].instance].failed = TRUE]
            /\ UNCHANGED exchanges

\* the caller goes on and may ask again
CallerDone(p) ==
    /\ callers[p].pc \in {"returned", "thrown"}
    /\ callers' = [callers EXCEPT ![p] = NoCaller]
    /\ UNCHANGED <<exchanges, created>>

InitManager == MirrorIdle /\ AgentIdle

NextManager ==
    \/ \E p \in Procs, id \in ExchangeIds :
          GetExchange(p, id)
             /\ UNCHANGED <<mirrorVars, runVars, jobVars, daemon, tick, strategyVars>>
    \/ \E p \in Procs, ok \in BOOLEAN :
          MarketsLoaded(p, ok)
             /\ UNCHANGED <<mirrorVars, runVars, jobVars, daemon, tick, strategyVars>>
    \/ \E p \in Procs :
          CallerDone(p)
             /\ UNCHANGED <<mirrorVars, runVars, jobVars, daemon, tick, strategyVars>>

SpecManager == InitManager /\ [][NextManager]_vars

\* the runs of CcxtExchange.create for the id that have not failed
CreatedFor(id) ==
    {i \in 1..Len(created) : created[i].id = id /\ ~created[i].failed}

\* C27: whatever the interleaving of the getExchange calls, CcxtExchange.create
\* has run at most once per id, not counting runs that have failed, and the
\* callers that have been answered for the same id hold the same instance
C27_CreatedOnce ==
    /\ \A id \in ExchangeIds : Cardinality(CreatedFor(id)) <= 1
    /\ \A p \in Procs, q \in Procs :
          (/\ callers[p].pc = "returned" /\ callers[q].pc = "returned"
           /\ callers[p].id = callers[q].id)
             => callers[p].instance = callers[q].instance

\* ======================================================================
\* SpecDispatch: runForMarket of the market making strategy
\* ======================================================================
MaxOrdersDispatch == 4

\* the strategy options fiatRatio and autoCancelAtFillPercentage, in percent
FiatRatio == 20
StrategyFillPercentage == 90

\* getOpenOrders(market, side, orderFilter): the open orders of the side of
\* which at least a tenth remains
QuotedOrders(st, market, side) ==
    {st.openOrders[id] : id \in {i \in DOMAIN st.openOrders :
        /\ st.openOrders[i].market = market
        /\ st.openOrders[i].side = side
        /\ st.openOrders[i].remaining * 10 >= st.openOrders[i].amount}}

\* runMarketMaker(input) with the sell and buy callbacks of runForMarket;
\* quotePrices and dealAmount are what computeQuotePrices and the deal
\* amount computation give for the candles of the market
runMarketMaker(w, market, quotePrices, dealAmount) ==
    LET buyOrders == QuotedOrders(w.st, market, Buy)
        sellOrders == QuotedOrders(w.st, market, Sell)
        balance == getBalance(w.st, baseCurrency(market))
        quoteBalance == getBalance(w.st, quoteCurrency(market))
        minDealAmount == getMinDealAmount(w.st, market)
        buyAmount == Min(Max(minDealAmount, dealAmount),
                         quoteBalance.free \div quotePrices.bid)
        sellAmount == Min(Max(minDealAmount, dealAmount), balance.free)
        canBuy == buyAmount >= minDealAmount /\ balance.total > minDealAmount
        canSell == sellAmount >= minDealAmount
        mismatch == \/ (sellOrders # {} /\ ~canSell)
                    \/ (sellOrders = {} /\ canSell)
                    \/ (buyOrders # {} /\ ~canBuy)
                    \/ (buyOrders = {} /\ canBuy)
        sell(v) == IF canSell
                   THEN createOrder(v, Options(market, Limit, Sell, sellAmount,
                                        quotePrices.ask, 0,
                                        StrategyFillPercentage, Absent, FALSE))
                   ELSE v
        buyBack(v) == IF canBuy
                      THEN createOrder(v, Options(market, Limit, Buy, buyAmount,
                                           quotePrices.bid, 0,
                                           StrategyFillPercentage, Absent, FALSE))
                      ELSE v
    IN
    IF buyOrders # {} /\ sellOrders # {} THEN w
    ELSE IF ~mismatch THEN w
    ELSE \* cancelAllOrders(), then sell, then buy, each on the mirror as
         \* the step before has left it
         CHOOSE out \in {buyBack(v2) : v2 \in
                            {sell(v1) : v1 \in {cancelAllOrders(w, market, NoSide)}}} :
            TRUE

\* MarketMakingStrategyGueant.runForMarket(market): the mirror and the
\* market's state it leaves; each step of the strategy it runs is logged
runForMarket(w, ms, market, activeMarkets, haveCandles, quotePrices, dealAmount) ==
    LET ms1 == [ms EXCEPT !.ratio =
                   IF @ # 0 THEN @ ELSE (100 - FiatRatio) \div activeMarkets]
    IN
    \* v is the mirror after exchange.update(market), which is called for a
    \* market that is not Idle
    CHOOSE out \in
       {IF ms.agentState # Idle /\ ~v.ok THEN [w |-> v, ms |-> ms1]
        ELSE IF ~haveCandles THEN [w |-> Throw(v), ms |-> ms1]
        ELSE [w |-> runMarketMaker(Logged(v, "runMarketMaker", 0), market,
                                   quotePrices, dealAmount),
              ms |-> ms1] :
          v \in {IF ms.agentState # Idle
                  THEN update(w, market, Fetched(<<>>)) ELSE w}} : TRUE

\* the strategy runs for the market BTC/USDT
RunForMarket(activeMarkets, haveCandles, quotePrices, dealAmount, maxOrders) ==
    /\ nextOrderId <= maxOrders
    /\ \E out \in {runForMarket(Here(NoFetches, {}, FALSE), marketState, BTCUSDT,
                                  activeMarkets, haveCandles, quotePrices,
                                  dealAmount)} :
          /\ Return(out.w, [op |-> "runForMarket", market |-> BTCUSDT,
                            agentState |-> marketState.agentState,
                            haveCandles |-> haveCandles,
                            quotePrices |-> quotePrices])
          /\ marketState' = out.ms
    /\ UNCHANGED <<dryRun, currentTime, candles>>

InitDispatch ==
    /\ state = NewState(TRUE, FALSE, DefaultFee, NoReserves, InitialBalances,
                   TickersLimit, NoBooks)
    /\ dryRun = FALSE
    /\ currentTime = 0
    /\ nextOrderId = 1
    /\ candles = [m \in Markets |-> NoCandle]
    /\ lastCall = [op |-> "new"]
    /\ RunsIdle
    /\ JobsIdle
    /\ daemon = DaemonUp
    /\ tick = NoTick
    /\ lastQuote = NoQuote
    /\ marketState \in {[NoMarketState EXCEPT !.agentState = agentState] :
                          agentState \in AgentStates}
    /\ universe = NoUniverse
    /\ ManagerIdle

NextDispatch ==
    \/ \E activeMarkets \in {1, 2}, haveCandles \in BOOLEAN,
          quotePrices \in {[bid |-> 98, ask |-> 102], [bid |-> 97, ask |-> 103]} :
          /\ RunForMarket(activeMarkets, haveCandles, quotePrices, Unit,
                          MaxOrdersDispatch)
          /\ UNCHANGED <<runVars, jobVars, daemon, tick, lastQuote, universe, managerVars>>
    \/ \E side \in {Buy, Sell} :
          /\ CancelAllOrders(BTCUSDT, side)
          /\ UNCHANGED <<runVars, jobVars, daemon, tick, strategyVars, managerVars>>

SpecDispatch == InitDispatch /\ [][NextDispatch]_vars

\* the step of that name has run in the call
StepRan(call, step) == \E i \in 1..Len(call.steps) : call.steps[i].step = step

\* C28: a call of runForMarket that gets past the exchange update and the
\* candles runs the entry step for a market in Idle or TryingToEnter and
\* the exit step for a market in HasPosition or TryingToLeave
C28_DispatchByState ==
    [][(lastCall'.op = "runForMarket" /\ ~lastCall'.err /\ lastCall'.ok) =>
          /\ marketState.agentState \in {Idle, TryingToEnter}
                => StepRan(lastCall', "runEntryStrategy")
          /\ marketState.agentState \in {HasPosition, TryingToLeave}
                => StepRan(lastCall', "runExitStrategy")]_vars

\* ======================================================================
\* SpecMaker: the market maker on a live mirror whose remote may refuse to
\* cancel
\* ======================================================================
MaxOrdersMaker == 4

\* a caller runs the market maker for BTC/USDT; the remote refuses to cancel
\* the orders of failCancel
RunMarketMaker(quotePrices, dealAmount, failCancel, maxOrders) ==
    /\ nextOrderId + 1 <= maxOrders
    /\ \E out \in {runMarketMaker(Here(NoFetches, failCancel, FALSE), BTCUSDT,
                                    quotePrices, dealAmount)} :
          Return(out, [op |-> "runMarketMaker", market |-> BTCUSDT,
                       quotePrices |-> quotePrices, dealAmount |-> dealAmount,
                       failCancel |-> failCancel])
    /\ UNCHANGED <<dryRun, currentTime, candles>>

InitMaker ==
    /\ state = NewState(FALSE, FALSE, DefaultFee, NoReserves, InitialBalances,
                   TickersLimit, NoBooks)
    /\ dryRun \in BOOLEAN
    /\ currentTime = 0
    /\ nextOrderId = 1
    /\ candles = [m \in Markets |-> NoCandle]
    /\ lastCall = [op |-> "new"]
    /\ AgentIdle

NextMaker ==
    \/ \E dealAmount \in {Unit, 2 * Unit},
          failCancel \in IF dryRun THEN {{}} ELSE SUBSET DOMAIN state.openOrders :
          /\ RunMarketMaker([bid |-> 98, ask |-> 102], dealAmount, failCancel,
                            MaxOrdersMaker)
          /\ UNCHANGED agentVars
    \/ \E side \in {Buy, Sell} :
          CancelAllOrders(BTCUSDT, side) /\ UNCHANGED agentVars
    \/ \E fetch \in {Fetched(<<>>)} :
          SyncOrders(BTCUSDT, fetch, {}) /\ UNCHANGED agentVars

SpecMaker == InitMaker /\ [][NextMaker]_vars

\* canBuy and canSell of runMarketMaker for the mirror
canQuote(st, market, quotePrices, dealAmount) ==
    LET balance == getBalance(st, baseCurrency(market))
        quoteBalance == getBalance(st, quoteCurrency(market))
        minDealAmount == getMinDealAmount(st, market)
        buyAmount == Min(Max(minDealAmount, dealAmount),
                         quoteBalance.free \div quotePrices.bid)
        sellAmount == Min(Max(minDealAmount, dealAmount), balance.free)
    IN [buy |-> buyAmount >= minDealAmount /\ balance.total > minDealAmount,
        sell |-> sellAmount >= minDealAmount]

\* the open orders of the market and side
OpenOn(st, market, side) ==
    {id \in OpenIds(st, market) : st.openOrders[id].side = side}

\* C33: a run of the market maker changes nothing when a buy and a sell
\* order are open, or when the open orders of both sides agree with canBuy
\* and canSell; else no order that was open in the market is open after it,
\* the orders it has placed are Limit orders, one for each allowed side and
\* none for the other; and after the run at most one buy and one sell order
\* are open in the market
C33_MakerQuotes ==
    [][lastCall'.op = "runMarketMaker" =>
          LET market == lastCall'.market
              buyOrders == QuotedOrders(state, market, Buy)
              sellOrders == QuotedOrders(state, market, Sell)
              can == canQuote(state, market, lastCall'.quotePrices,
                              lastCall'.dealAmount)
              placed == OpenIds(state', market) \ OpenIds(state, market)
          IN
          /\ IF \/ (buyOrders # {} /\ sellOrders # {})
                \/ ((sellOrders # {}) = can.sell /\ (buyOrders # {}) = can.buy)
             THEN state' = state
             ELSE /\ OpenIds(state', market) \cap OpenIds(state, market) = {}
                  /\ \A id \in placed : state'.openOrders[id].type = Limit
                  /\ Cardinality({id \in placed : state'.openOrders[id].side = Sell})
                        = IF can.sell THEN 1 ELSE 0
                  /\ Cardinality({id \in placed : state'.openOrders[id].side = Buy})
                        = IF can.buy THEN 1 ELSE 0
          /\ Cardinality(OpenOn(state', market, Buy)) <= 1
          /\ Cardinality(OpenOn(state', market, Sell)) <= 1]_vars

\* ======================================================================
\* SpecUniverse: the active markets of the strategy over the ticks of the
\* agent
\* ======================================================================
\* the active markets: the keys of marketState, of the strategy while a
\* tick runs and of the agent document between ticks
ActiveSet(u) == IF u.pc = "idle" THEN u.persisted ELSE u.active

\* updateActiveMarkets: a market that can be traded or is active, and whose
\* trend and price level allow an entry, gets a market state
updateActiveMarkets(active, settings) ==
    active \cup {m \in Markets :
                    /\ settings[m].canTrade \/ m \in active
                    /\ settings[m].uptrend}

\* a check of the active list in runForMarket that removes each market
\* that is not in a tradeable uptrend
checkActiveListRemoving(active, settings) ==
    {m \in active : settings[m].canTrade /\ settings[m].uptrend}

\* the check of the active list in runForMarket: it logs why the market is
\* not removed, and removes none
checkActiveList(active, settings) == active

\* the market settings, the base balance or the open orders of a market
\* change between two ticks
SetMarketSettings(m, settings) ==
    /\ universe.pc = "idle"
    /\ universe.settings[m] # settings
    /\ universe' = [universe EXCEPT !.settings[m] = settings]

\* doUpdateTradingAgent creates the strategy with the agent's strategyState
TickLoad(dry) ==
    /\ universe.pc = "idle"
    /\ universe' = [universe EXCEPT !.pc = "beforeRun", !.dry = dry,
                                    !.active = universe.persisted]

\* strategy.beforeRun(); the tick ends when it answers false
BeforeRunUniverse(ok) ==
    /\ universe.pc = "beforeRun"
    /\ universe' = [universe EXCEPT
          !.active = updateActiveMarkets(@, universe.settings),
          !.pc = IF ok THEN "run" ELSE "idle"]

\* strategy.runForMarket for every active market; the tick ends when one
\* of them throws
RunMarketsUniverse(thrown) ==
    /\ universe.pc = "run"
    /\ universe' = [universe EXCEPT
          !.active = checkActiveList(@, universe.settings),
          !.pc = IF thrown THEN "idle" ELSE "save"]

\* the end of the tick: the strategy's state is saved unless in a dry run
SaveUniverse ==
    /\ universe.pc = "save"
    /\ universe' = [universe EXCEPT
          !.persisted = IF universe.dry THEN @ ELSE universe.active,
          !.pc = "idle"]

InitUniverse ==
    /\ state = NewState(TRUE, FALSE, DefaultFee, NoReserves, InitialBalances,
                   TickersLimit, NoBooks)
    /\ dryRun = FALSE
    /\ currentTime = 0
    /\ nextOrderId = 1
    /\ candles = [m \in Markets |-> NoCandle]
    /\ lastCall = [op |-> "new"]
    /\ AgentIdle

NextUniverse ==
    \/ \E m \in Markets, canTrade \in BOOLEAN, uptrend \in BOOLEAN,
          position \in BOOLEAN, orders \in BOOLEAN :
          /\ SetMarketSettings(m, [canTrade |-> canTrade, uptrend |-> uptrend,
                                   position |-> position, orders |-> orders])
          /\ UNCHANGED <<mirrorVars, runVars, jobVars, daemon, tick, lastQuote,
                         marketState, managerVars>>
    \/ \E dry \in BOOLEAN :
          /\ TickLoad(dry)
          /\ UNCHANGED <<mirrorVars, runVars, jobVars, daemon, tick, lastQuote,
                         marketState, managerVars>>
    \/ \E ok \in BOOLEAN :
          /\ BeforeRunUniverse(ok)
          /\ UNCHANGED <<mirrorVars, runVars, jobVars, daemon, tick, lastQuote,
                         marketState, managerVars>>
    \/ \E thrown \in BOOLEAN :
          /\ RunMarketsUniverse(thrown)
          /\ UNCHANGED <<mirrorVars, runVars, jobVars, daemon, tick, lastQuote,
                         marketState, managerVars>>
    \/ /\ SaveUniverse
       /\ UNCHANGED <<mirrorVars, runVars, jobVars, daemon, tick, lastQuote,
                      marketState, managerVars>>

SpecUniverse == InitUniverse /\ [][NextUniverse]_vars

\* the market can be traded, holds a position or has open orders
KeepsMarket(settings) ==
    settings.canTrade \/ settings.position \/ settings.orders

ReservedBy(order, currency) ==
    IF order.type # Limit THEN 0
    ELSE IF order.side = Buy /\ currency = quoteCurrency(order.market)
    THEN order.price * order.amount
    ELSE IF order.side = Sell /\ currency = baseCurrency(order.market)
    THEN order.amount
    ELSE 0

RECURSIVE ReservedOf(_, _, _)
ReservedOf(st, ids, currency) ==
    IF ids = {} THEN 0
    ELSE LET id == CHOOSE i \in ids : TRUE
         IN ReservedBy(st.openOrders[id], currency)
               + ReservedOf(st, ids \ {id}, currency)

\* C35: in simulation, after any sequence of createOrder (Limit or
\* Market), cancelOrder, fulfilment and sticky replacement, the raw free
\* and used balance of no currency is negative, and the used balance of a
\* currency is the sum of what its open Limit orders hold reserved
C35_BalancesBacked ==
    \A c \in Currencies :
       /\ state.balances[c].free >= 0
       /\ state.balances[c].used >= 0
       /\ state.balances[c].used = ReservedOf(state, DOMAIN state.openOrders, c)

\* ----------------------------------------------------------------------
\* C36: on a live mirror a createOrder that fails at the remote leaves the
\* balances as they were before the call: nothing stays moved from free to
\* used, or withdrawn, for an order that was never stored
C36_FailedCreateKeepsBalances ==
    [][(/\ lastCall'.op = "createOrder"
        /\ lastCall'.failed /\ lastCall'.sent = 1)
          => state'.balances = state.balances]_vars

\* ======================================================================
\* SpecReplace: sticky orders of a mirror and a remote that may refuse to
\* cancel an order
\* ======================================================================
MaxOrdersReplace == 2
MaxIdsReplace == 4

\* updateStickyOrders while the remote refuses to cancel the orders of
\* failCancel
UpdateStickyOrdersRemote(market, books, failCancel, maxIds) ==
    /\ nextOrderId <= maxIds
    /\ Return(updateStickyOrders(Here(books, failCancel, FALSE), market),
              [op |-> "updateStickyOrdersRemote", market |-> market,
               books |-> books, failCancel |-> failCancel])
    /\ UNCHANGED <<dryRun, currentTime, candles>>

InitReplace ==
    /\ \E simulation \in BOOLEAN :
         state = NewState(simulation, FALSE, DefaultFee, NoReserves,
                     InitialBalances, TickersLimit, NoBooks)
    /\ dryRun \in BOOLEAN
    /\ currentTime = 0
    /\ nextOrderId = 1
    /\ candles = [m \in Markets |-> NoCandle]
    /\ lastCall = [op |-> "new"]
    /\ AgentIdle

NextReplace ==
    \/ \E options \in StickyOptions :
          CreateOrder(options, MaxOrdersReplace) /\ UNCHANGED agentVars
    \/ \E books \in StickyFetches,
          failCancel \in SUBSET (IF state.simulation \/ dryRun THEN {}
                                 ELSE DOMAIN state.openOrders) :
          /\ UpdateStickyOrdersRemote(BTCUSDT, books, failCancel, MaxIdsReplace)
          /\ UNCHANGED agentVars

SpecReplace == InitReplace /\ [][NextReplace]_vars

\* the sticky orders of the market that updateStickyOrders has to move
DueIds(st, call) ==
    {id \in StickyIds(st, call.market) :
        LET order == st.openOrders[id]
        IN StickyPrice(order, st.tickers[order.market],
                       BookSeen(st, call, order.market)) # order.price}

\* C37: a sticky replace leaves no two live orders for one intent: an order
\* is placed only for an order whose cancel took effect, so after
\* updateStickyOrders each new open order stands for a distinct order that
\* has left openOrders, and none is placed while every old order is open
C37_ReplaceOnlyCancelled ==
    [][lastCall'.op = "updateStickyOrdersRemote" =>
         LET due == DueIds(state, lastCall')
             kept == due \cap DOMAIN state'.openOrders
             placed == DOMAIN state'.openOrders \ DOMAIN state.openOrders
         IN Cardinality(placed) <= Cardinality(due \ kept)]_vars

\* ======================================================================
\* SpecChain: a sticky order with an autoCancel period, and update(market)
\* replacing it as the order book moves and time passes
\* ======================================================================
MaxOrdersChain == 1
MaxIdsChain == 4
MaxTimeChain == 5

\* sticky orders that are to be cancelled after 2 or 3 days; one of them
\* also when it is half filled
ChainOptions ==
    {Options(BTCUSDT, Limit, side, Unit, 100, autoCancel, fillPct, Absent, TRUE) :
        side \in {Buy, Sell}, autoCancel \in {2, 3}, fillPct \in {Absent, 50}}

InitChain ==
    /\ \E dry \in BOOLEAN :
         /\ state = NewState(~dry, FALSE, DefaultFee, NoReserves,
                        InitialBalances, TickersLimit, NoBooks)
         /\ dryRun = dry
    /\ currentTime \in {0, 1}
    /\ nextOrderId = 1
    /\ candles = [m \in Markets |-> NoCandle]
    /\ lastCall = [op |-> "new"]
    /\ AgentIdle

NextChain ==
    \/ \E options \in ChainOptions :
          CreateOrder(options, MaxOrdersChain) /\ UNCHANGED agentVars
    \/ \E books \in StickyFetches :
          Update(BTCUSDT, Fetched(<<>>), books, MaxIdsChain) /\ UNCHANGED agentVars
    \/ Tick(1, MaxTimeChain) /\ UNCHANGED agentVars

SpecChain == InitChain /\ [][NextChain]_vars

\* the time at which autoCancelOrders starts to cancel the order
Deadline(order) == order.timestamp + order.autoCancel

MaxOrdersMarkets == 2
MaxIdsMarkets == 3

MarketsOptions ==
    {Options(BTCUSDT, Limit, Buy, Unit, 100, 0, Absent, Absent, FALSE),
     Options(ETHUSDT, Limit, Sell, Unit, 10, 0, Absent, Absent, TRUE)}

InitMarkets ==
    /\ state = NewState(TRUE, FALSE, DefaultFee, NoReserves,
                   [InitialBalances EXCEPT !["ETH"].free = 2 * Unit],
                   TickersLimit, NoBooks)
    /\ dryRun = FALSE
    /\ currentTime = 0
    /\ nextOrderId = 1
    /\ candles = [m \in Markets |-> NoCandle]
    /\ lastCall = [op |-> "new"]
    /\ AgentIdle

NextMarkets ==
    \/ \E options \in MarketsOptions :
          CreateOrder(options, MaxOrdersMarkets) /\ UNCHANGED agentVars
    \/ \E id \in DOMAIN state.openOrders :
          CancelOrder(state.openOrders[id]) /\ UNCHANGED agentVars
    \/ \E market \in Markets :
          /\ Update(market, Fetched(<<>>), NoFetches, MaxIdsMarkets)
          /\ UNCHANGED agentVars
    \/ Tick(PurgeAge, MaxTime) /\ UNCHANGED agentVars

SpecMarkets == InitMarkets /\ [][NextMarkets]_vars

\* the orders of the list that are not of the market
OrdersElsewhere(orders, market) ==
    {id \in DOMAIN orders : orders[id].market # market}

\* C39: the reconciliation of a market touches the orders of that market
\* only: update(A) cancels, closes, purges and re-places no order of a
\* market B, so every order of B is after the call where and as it was
C39_OwnMarketOnly ==
    [][lastCall'.op = "update" =>
         LET market == lastCall'.market
         IN /\ \A id \in OrdersElsewhere(state.openOrders, market) :
                  /\ id \in DOMAIN state'.openOrders
                  /\ state'.openOrders[id] = state.openOrders[id]
            /\ \A id \in OrdersElsewhere(state.closedOrders, market) :
                  /\ id \in DOMAIN state'.closedOrders
                  /\ state'.closedOrders[id] = state.closedOrders[id]
            /\ \A id \in OrdersElsewhere(state.cancelledOrders, market) :
                  /\ id \in DOMAIN state'.cancelledOrders
                  /\ state'.cancelledOrders[id] = state.cancelledOrders[id]
            /\ OrdersElsewhere(state'.openOrders, market)
                  \subseteq DOMAIN state.openOrders]_vars

\* ----------------------------------------------------------------------
\* C40: when the drawdown guard has set paused in a run that is not a dry
\* run, the agent is stored with paused = true by the time the run
\* returns, whichever way it returns, so that the next run loads the flag
C40_PausePersisted ==
    [][\A slot \in RunSlots :
          ( /\ runs[slot].pc # "idle" /\ runs'[slot].pc = "idle"
            /\ ~runs[slot].dryRun
            /\ "paused" \in runs[slot].modified
            /\ runs[slot].model.paused )
             => agent'.paused]_vars

====
